---------------------------- MODULE Spec2Model ----------------------------
(***************************************************************************)
(* A model of the tufteeditor core: the citation subsystem (citations.js:  *)
(* BibTeX parser, bibliography store, per-render citation tracker,         *)
(* reference formatter) and the Markdown renderer (parser.js: block        *)
(* splitter, section assembler, inline token processor).                   *)
(*                                                                         *)
(* Text is a sequence of atoms.  Every character that comes from an input  *)
(* (Markdown source, BibTeX text, a key, a url, a name) is a one-character *)
(* atom.  The constant pieces of markup the code emits are atoms of their  *)
(* own ("<a class=...", "</span>"); they are cut so that none of them      *)
(* holds a character a later rewriting pass looks for, and the characters  *)
(* the passes do look for are always atoms of their own.                   *)
(***************************************************************************)
EXTENDS Integers, Sequences, FiniteSets, TLC

(***************************************************************************)
(* JavaScript string primitives                                            *)
(***************************************************************************)

\* s[i] with a 0-based index; out of range reads as undefined
UNDEF == "undefined"
At(s, i) == IF i >= 0 /\ i < Len(s) THEN s[i + 1] ELSE UNDEF

\* s.substring(a, b), 0-based, b exclusive, both clamped to the text
Sub(s, a, b) ==
  LET lo == IF a < 0 THEN 0 ELSE IF a > Len(s) THEN Len(s) ELSE a
      hi == IF b < 0 THEN 0 ELSE IF b > Len(s) THEN Len(s) ELSE b
  IN IF hi > lo THEN SubSeq(s, lo + 1, hi) ELSE <<>>

SetMin(S) == CHOOSE x \in S : \A y \in S : x <= y
SetMax(S) == CHOOSE x \in S : \A y \in S : x >= y

\* s.indexOf(c, i) for a one-character c
IndexOfFrom(s, c, i) ==
  LET hits == {j \in i..(Len(s) - 1) : s[j + 1] = c}
  IN IF hits = {} THEN -1 ELSE SetMin(hits)

\* array.indexOf(x)
IndexOf(seq, x) ==
  LET hits == {j \in 1..Len(seq) : seq[j] = x}
  IN IF hits = {} THEN -1 ELSE SetMin(hits) - 1

\* the cursor after `while (i < s.length && S.has(s[i])) i++`, for a
\* character class S
SkipWhile(s, i, S) ==
  LET stops == {j \in i..(Len(s) - 1) : s[j + 1] \notin S}
  IN IF stops = {} THEN (IF i > Len(s) THEN i ELSE Len(s)) ELSE SetMin(stops)

\* the cursor after `while (i < s.length && !S.has(s[i])) i++`
SkipUntil(s, i, S) ==
  LET stops == {j \in i..(Len(s) - 1) : s[j + 1] \in S}
  IN IF stops = {} THEN (IF i > Len(s) THEN i ELSE Len(s)) ELSE SetMin(stops)

LowerLetters == <<"a","b","c","d","e","f","g","h","i","j","k","l","m",
                  "n","o","p","q","r","s","t","u","v","w","x","y","z">>
UpperLetters == <<"A","B","C","D","E","F","G","H","I","J","K","L","M",
                  "N","O","P","Q","R","S","T","U","V","W","X","Y","Z">>
DigitChars == <<"0","1","2","3","4","5","6","7","8","9">>

Range(f) == {f[x] : x \in DOMAIN f}
Letters == Range(LowerLetters) \cup Range(UpperLetters)
DigitSet == Range(DigitChars)

IsAlpha(c) == c \in Letters                                        \* [a-zA-Z]
IsDigit(c) == c \in DigitSet                                       \* \d
IsWord(c) == IsAlpha(c) \/ IsDigit(c) \/ c = "_"                   \* \w
SpaceChars == {" ", "\n", "\t"}
IsSpace(c) == c \in SpaceChars                                     \* \s

\* String.prototype.toLowerCase, character by character
LowerChar(c) ==
  IF c \in Range(UpperLetters)
  THEN LowerLetters[CHOOSE j \in 1..26 : UpperLetters[j] = c]
  ELSE c
ToLowerCase(s) == [j \in 1..Len(s) |-> LowerChar(s[j])]

\* String.prototype.trim
Trim(s) ==
  LET keep == {j \in 1..Len(s) : ~IsSpace(s[j])}
  IN IF keep = {} THEN <<>> ELSE SubSeq(s, SetMin(keep), SetMax(keep))

\* s.includes(c) for a one-character c
Includes(s, c) == \E j \in 1..Len(s) : s[j] = c

\* s.startsWith(p)
StartsWith(s, p) == Len(s) >= Len(p) /\ SubSeq(s, 1, Len(p)) = p

\* the decimal digits of a number, as template interpolation writes it
RECURSIVE Digits(_)
Digits(n) == IF n < 10 THEN <<DigitChars[n + 1]>>
             ELSE Digits(n \div 10) \o <<DigitChars[(n % 10) + 1]>>

\* the number a run of digits writes (parseInt of digits)
RECURSIVE DigitsValue(_)
DigitsValue(ds) ==
  IF Len(ds) = 0 THEN 0
  ELSE 10 * DigitsValue(SubSeq(ds, 1, Len(ds) - 1))
         + (CHOOSE v \in 0..9 : DigitChars[v + 1] = ds[Len(ds)])

\* parts.join(sep)
RECURSIVE Join(_, _)
Join(parts, sep) ==
  IF Len(parts) = 0 THEN <<>>
  ELSE IF Len(parts) = 1 THEN parts[1]
  ELSE parts[1] \o sep \o Join(Tail(parts), sep)

\* concatenation of a sequence of texts
Flatten(parts) == Join(parts, <<>>)

(***************************************************************************)
(* parser.js: escaping                                                     *)
(***************************************************************************)

\* one character of escapeAttr
EscapeAttrChar(c) ==
  CASE c = "&" -> <<"&amp;">>
    [] c = "\"" -> <<"&quot;">>
    [] c = "<" -> <<"&lt;">>
    [] c = ">" -> <<"&gt;">>
    [] OTHER -> <<c>>

\* one character of escapeHtml
EscapeHtmlChar(c) ==
  CASE c = "&" -> <<"&amp;">>
    [] c = "<" -> <<"&lt;">>
    [] c = ">" -> <<"&gt;">>
    [] OTHER -> <<c>>

escapeAttr(s) == Flatten([j \in 1..Len(s) |-> EscapeAttrChar(s[j])])

escapeHtml(s) == Flatten([j \in 1..Len(s) |-> EscapeHtmlChar(s[j])])

(***************************************************************************)
(* citations.js: BibTeX parser                                             *)
(***************************************************************************)

\* field names, as the parser spells them (lowercased)
F_key == <<"k","e","y">>
F_type == <<"t","y","p","e">>
F_author == <<"a","u","t","h","o","r">>
F_year == <<"y","e","a","r">>
F_title == <<"t","i","t","l","e">>
F_journal == <<"j","o","u","r","n","a","l">>
F_publisher == <<"p","u","b","l","i","s","h","e","r">>
F_volume == <<"v","o","l","u","m","e">>
F_pages == <<"p","a","g","e","s">>
F_doi == <<"d","o","i">>
F_url == <<"u","r","l">>

\* obj[name] = value
Put(obj, name, value) ==
  [x \in DOMAIN obj \cup {name} |-> IF x = name THEN value ELSE obj[x]]

\* { ...a, ...b }: the properties of b override those of a
Spread(a, b) ==
  [x \in DOMAIN a \cup DOMAIN b |-> IF x \in DOMAIN b THEN b[x] ELSE a[x]]

\* entry.name, the empty text standing for undefined (both are falsy)
Field(entry, name) == IF name \in DOMAIN entry THEN entry[name] ELSE <<>>

EmptyMap == [x \in {} |-> <<>>]

\* a depth-counting scan that takes the end of the text for the closing
\* brace
RECURSIVE MatchBrace_ClosesAtEnd(_, _, _)
MatchBrace_ClosesAtEnd(text, i, depth) ==
  IF ~(i < Len(text)) THEN [i |-> i, depth |-> 0]
  ELSE IF ~(depth > 0) THEN [i |-> i, depth |-> depth]
  ELSE LET d == IF At(text, i) = "{" THEN depth + 1
                ELSE IF At(text, i) = "}" THEN depth - 1 ELSE depth
       IN MatchBrace_ClosesAtEnd(text, IF d > 0 THEN i + 1 ELSE i, d)

\* the depth-counting scan for the brace that closes one opened before i;
\* the result is the cursor and the depth the loop ends with
RECURSIVE MatchBrace(_, _, _)
MatchBrace(text, i, depth) ==
  IF ~(i < Len(text) /\ depth > 0) THEN [i |-> i, depth |-> depth]
  ELSE LET d == IF At(text, i) = "{" THEN depth + 1
                ELSE IF At(text, i) = "}" THEN depth - 1 ELSE depth
       IN MatchBrace(text, IF d > 0 THEN i + 1 ELSE i, d)

\* a braced value: the cursor starts after the opening brace
RECURSIVE ReadBraced(_, _, _, _)
ReadBraced(body, i, depth, value) ==
  IF ~(i < Len(body) /\ depth > 0) THEN [i |-> i, value |-> value]
  ELSE LET d == IF At(body, i) = "{" THEN depth + 1
                ELSE IF At(body, i) = "}" THEN depth - 1 ELSE depth
       IN ReadBraced(body, i + 1, d,
                     IF d > 0 THEN Append(value, At(body, i)) ELSE value)

\* what ends a bare value: a comma, a closing brace, whitespace
BareEnd == {",", "}"} \cup SpaceChars
SpaceOrComma == SpaceChars \cup {","}       \* [\s,]
FieldChars == Letters \cup {"_", "-"}       \* [a-zA-Z_-]

\* a field value at cursor i: braced, quoted or bare
ReadValue(body, i) ==
  IF At(body, i) = "{" THEN ReadBraced(body, i + 1, 1, <<>>)
  ELSE IF At(body, i) = "\""
    THEN LET q == SkipUntil(body, i + 1, {"\""})
         IN [i |-> q + 1, value |-> Sub(body, i + 1, q)]
    ELSE LET e == SkipUntil(body, i, BareEnd)
         IN [i |-> e, value |-> Sub(body, i, e)]

\* the `field = value` loop of parseEntryBody
RECURSIVE ParseFields(_, _, _)
ParseFields(body, i0, fields) ==
  IF ~(i0 < Len(body)) THEN fields
  ELSE
    LET i1 == SkipWhile(body, i0, SpaceOrComma) IN
    IF i1 >= Len(body) THEN fields
    ELSE
      LET i2 == SkipWhile(body, i1, FieldChars)
          fieldName == Trim(ToLowerCase(Sub(body, i1, i2)))
      IN
      IF fieldName = <<>> THEN ParseFields(body, i2 + 1, fields)
      ELSE
        LET i3 == SkipWhile(body, i2, SpaceChars) IN
        IF At(body, i3) # "=" THEN ParseFields(body, i3, fields)
        ELSE
          LET i4 == SkipWhile(body, i3 + 1, SpaceChars)
              v == ReadValue(body, i4)
          IN ParseFields(body, v.i, Put(fields, fieldName, Trim(v.value)))

\* null
NoEntry == [x \in {<<"n","u","l","l">>} |-> <<>>]

parseEntryBody(body, type) ==
  LET i0 == SkipWhile(body, 0, SpaceChars)
      i1 == SkipUntil(body, i0, {","})
      key == Trim(Sub(body, i0, i1))
  IN IF key = <<>> THEN NoEntry
     ELSE Spread(Put(EmptyMap, F_key, key),
                 ParseFields(body, i1 + 1, Put(EmptyMap, F_type, type)))

T_string == <<"s","t","r","i","n","g">>
T_preamble == <<"p","r","e","a","m","b","l","e">>
T_comment == <<"c","o","m","m","e","n","t">>

\* the entry scanner of parseBibTeX: one iteration of `while (i < text.length)`
RECURSIVE ScanEntries(_, _, _)
ScanEntries(text, i, entries) ==
  IF ~(i < Len(text)) THEN entries
  ELSE
    LET atIdx == IndexOfFrom(text, "@", i) IN
    IF atIdx = -1 THEN entries
    ELSE
      LET i1 == atIdx + 1
          i2 == SkipWhile(text, i1, Letters)
          type == ToLowerCase(Sub(text, i1, i2))
          i3 == SkipWhile(text, i2, SpaceChars)
      IN
      IF At(text, i3) # "{" THEN ScanEntries(text, i3, entries)
      ELSE
        LET entryStart == i3 + 1
            m == MatchBrace(text, entryStart, 1)
        IN
        IF m.depth # 0 THEN entries
        ELSE
          LET entryBody == Sub(text, entryStart, m.i)
              i4 == m.i + 1
          IN
          IF type \in {T_string, T_preamble, T_comment}
          THEN ScanEntries(text, i4, entries)
          ELSE
            LET entry == parseEntryBody(entryBody, type) IN
            IF entry # NoEntry /\ Field(entry, F_key) # <<>>
            THEN ScanEntries(text, i4,
                             Put(entries, ToLowerCase(entry[F_key]), entry))
            ELSE ScanEntries(text, i4, entries)

parseBibTeX(text) == ScanEntries(text, 0, EmptyMap)

\* an iteration of the entry scanner that takes @string, @preamble and
\* @comment blocks for entries
EntryIteration_NoSkip(text, i) ==
  LET atIdx == IndexOfFrom(text, "@", i)
      i1 == atIdx + 1
      i2 == SkipWhile(text, i1, Letters)
      type == ToLowerCase(Sub(text, i1, i2))
      i3 == SkipWhile(text, i2, SpaceChars)
      m == MatchBrace(text, i3 + 1, 1)
  IN IF atIdx = -1
     THEN [kind |-> "break", i |-> i, type |-> <<>>, body |-> <<>>]
     ELSE IF At(text, i3) # "{"
     THEN [kind |-> "continue", i |-> i3, type |-> type, body |-> <<>>]
     ELSE IF m.depth # 0
     THEN [kind |-> "break", i |-> m.i, type |-> type, body |-> <<>>]
     ELSE [kind |-> "entry", i |-> m.i + 1, type |-> type,
           body |-> Sub(text, i3 + 1, m.i)]

\* one iteration of the entry scanner, from `while (i < text.length)` to the
\* call of parseEntryBody: how it leaves the loop body ("break",
\* "continue", or "entry": the call is made), the cursor, and the type and
\* body it has read
EntryIteration(text, i) ==
  LET atIdx == IndexOfFrom(text, "@", i)
      i1 == atIdx + 1
      i2 == SkipWhile(text, i1, Letters)
      type == ToLowerCase(Sub(text, i1, i2))
      i3 == SkipWhile(text, i2, SpaceChars)
      m == MatchBrace(text, i3 + 1, 1)
  IN IF atIdx = -1
     THEN [kind |-> "break", i |-> i, type |-> <<>>, body |-> <<>>]
     ELSE IF At(text, i3) # "{"
     THEN [kind |-> "continue", i |-> i3, type |-> type, body |-> <<>>]
     ELSE IF m.depth # 0
     THEN [kind |-> "break", i |-> m.i, type |-> type, body |-> <<>>]
     ELSE IF type \in {T_string, T_preamble, T_comment}
     THEN [kind |-> "continue", i |-> m.i + 1, type |-> type, body |-> <<>>]
     ELSE [kind |-> "entry", i |-> m.i + 1, type |-> type,
           body |-> Sub(text, i3 + 1, m.i)]

\* parseEntryBody up to its field loop: the key and the cursor after the
\* comma
EntryKey(body) ==
  LET i0 == SkipWhile(body, 0, SpaceChars)
      i1 == SkipUntil(body, i0, {","})
  IN [key |-> Trim(Sub(body, i0, i1)), j |-> i1 + 1]

\* an iteration of the field scanner that does not step over a character
\* that starts no field name
FieldIteration_NoSkip(body, j, fields) ==
  LET i1 == SkipWhile(body, j, SpaceOrComma)
      i2 == SkipWhile(body, i1, FieldChars)
      fieldName == Trim(ToLowerCase(Sub(body, i1, i2)))
      i3 == SkipWhile(body, i2, SpaceChars)
      v == ReadValue(body, SkipWhile(body, i3 + 1, SpaceChars))
  IN IF i1 >= Len(body) THEN [j |-> i1, fields |-> fields]
     ELSE IF fieldName = <<>> THEN [j |-> i2, fields |-> fields]
     ELSE IF At(body, i3) # "=" THEN [j |-> i3, fields |-> fields]
     ELSE [j |-> v.i, fields |-> Put(fields, fieldName, Trim(v.value))]

\* one iteration of the field scanner of parseEntryBody: the cursor and the
\* fields it leaves
FieldIteration(body, j, fields) ==
  LET i1 == SkipWhile(body, j, SpaceOrComma)
      i2 == SkipWhile(body, i1, FieldChars)
      fieldName == Trim(ToLowerCase(Sub(body, i1, i2)))
      i3 == SkipWhile(body, i2, SpaceChars)
      v == ReadValue(body, SkipWhile(body, i3 + 1, SpaceChars))
  IN IF i1 >= Len(body) THEN [j |-> i1, fields |-> fields]
     ELSE IF fieldName = <<>> THEN [j |-> i2 + 1, fields |-> fields]
     ELSE IF At(body, i3) # "=" THEN [j |-> i3, fields |-> fields]
     ELSE [j |-> v.i, fields |-> Put(fields, fieldName, Trim(v.value))]

\* `if (entry && entry.key) entries.set(entry.key.toLowerCase(), entry)`
StoreEntry(entries, entry) ==
  IF entry # NoEntry /\ Field(entry, F_key) # <<>>
  THEN Put(entries, ToLowerCase(entry[F_key]), entry)
  ELSE entries

(***************************************************************************)
(* citations.js: author normalization and reference formatting            *)
(***************************************************************************)

\* whether /\s+and\s+/i matches at p (0-based): p starts in a run of
\* whitespace that is followed by "and" and by more whitespace
AndMatchAt(s, p) ==
  LET r == SkipWhile(s, p, SpaceChars)
  IN /\ IsSpace(At(s, p))
     /\ ToLowerCase(Sub(s, r, r + 3)) = <<"a","n","d">>
     /\ r + 3 <= Len(s)
     /\ IsSpace(At(s, r + 3))

\* s.split(/\s+and\s+/i), from cursor `from`
RECURSIVE SplitAndFrom(_, _)
SplitAndFrom(s, from) ==
  LET cands == {p \in from..(Len(s) - 1) : AndMatchAt(s, p)}
  IN IF cands = {} THEN <<Sub(s, from, Len(s))>>
     ELSE LET p == SetMin(cands)
              e == SkipWhile(s, SkipWhile(s, p, SpaceChars) + 3, SpaceChars)
          IN <<Sub(s, from, p)>> \o SplitAndFrom(s, e)

SplitAnd(s) == SplitAndFrom(s, 0)

\* s.split(c) for a one-character c, from cursor `from`
RECURSIVE SplitCharFrom(_, _, _)
SplitCharFrom(s, c, from) ==
  LET p == IndexOfFrom(s, c, from)
  IN IF p = -1 THEN <<Sub(s, from, Len(s))>>
     ELSE <<Sub(s, from, p)>> \o SplitCharFrom(s, c, p + 1)

SplitChar(s, c) == SplitCharFrom(s, c, 0)

\* s.split(/\s+/), from cursor `from`
RECURSIVE SplitWsFrom(_, _)
SplitWsFrom(s, from) ==
  LET cands == {p \in from..(Len(s) - 1) : IsSpace(At(s, p))}
  IN IF cands = {} THEN <<Sub(s, from, Len(s))>>
     ELSE LET p == SetMin(cands)
          IN <<Sub(s, from, p)>> \o SplitWsFrom(s, SkipWhile(s, p, SpaceChars))

SplitWs(s) == SplitWsFrom(s, 0)

TrimAll(parts) == [j \in 1..Len(parts) |-> Trim(parts[j])]

\* one author of normalizeAuthors: "Last, First" becomes "First Last"
NormalizeOne(a0) ==
  LET a == Trim(a0)
      parts == TrimAll(SplitChar(a, ","))
  IN IF Includes(a, ",") THEN parts[2] \o <<" ">> \o parts[1] ELSE a

\* the joins shared by normalizeAuthors and formatAPAAuthors
JoinAuthors(list, pairSep, lastSep) ==
  IF Len(list) = 1 THEN list[1]
  ELSE IF Len(list) = 2 THEN list[1] \o pairSep \o list[2]
  ELSE Join(SubSeq(list, 1, Len(list) - 1), <<",", " ">>)
         \o lastSep \o list[Len(list)]

normalizeAuthors(authorStr) ==
  IF authorStr = <<>> THEN <<>>
  ELSE LET authors == SplitAnd(authorStr)
           normalized == [j \in 1..Len(authors) |-> NormalizeOne(authors[j])]
       IN JoinAuthors(normalized, <<" ", "&", " ">>, <<" ", "&", " ">>)

Unknown == <<"U","n","k","n","o","w","n">>

getLastName(authorStr) ==
  IF authorStr = <<>> THEN Unknown
  ELSE LET firstAuthor == Trim(SplitAnd(authorStr)[1])
           parts == SplitWs(firstAuthor)
       IN IF Includes(firstAuthor, ",")
          THEN Trim(SplitChar(firstAuthor, ",")[1])
          ELSE parts[Len(parts)]

\* n[0] + '.', where n[0] of the empty text is undefined
Initial(n) == (IF n = <<>> THEN <<UNDEF>> ELSE <<n[1]>>) \o <<".">>

Initials(names) == Join([j \in 1..Len(names) |-> Initial(names[j])], <<" ">>)

\* one author of formatAPAAuthors: "Last, F. M."
APAOne(a0) ==
  LET a == Trim(a0)
      cparts == TrimAll(SplitChar(a, ","))
      wparts == SplitWs(a)
  IN IF Includes(a, ",")
     THEN cparts[1] \o <<",", " ">> \o Initials(SplitWs(cparts[2]))
     ELSE IF Len(wparts) = 1 THEN a
     ELSE wparts[Len(wparts)] \o <<",", " ">>
            \o Initials(SubSeq(wparts, 1, Len(wparts) - 1))

formatAPAAuthors(authorStr) ==
  IF authorStr = <<>> THEN <<>>
  ELSE LET split == SplitAnd(authorStr)
           authors == [j \in 1..Len(split) |-> APAOne(split[j])]
       IN JoinAuthors(authors, <<",", " ", "&", " ">>, <<",", " ", "&", " ">>)

\* s.replace(/\.\./g, '.'): left to right, matches do not overlap
RECURSIVE ReplaceDotDot(_)
ReplaceDotDot(s) ==
  IF Len(s) < 2 THEN s
  ELSE IF s[1] = "." /\ s[2] = "."
    THEN <<".">> \o ReplaceDotDot(SubSeq(s, 3, Len(s)))
    ELSE <<s[1]>> \o ReplaceDotDot(Tail(s))

\* the parts a formatter pushes: the empty ones are not pushed
Pushed(parts) == SelectSeq(parts, LAMBDA x : x # <<>>)

\* the volume/pages part of formatReferenceText
VolPagesText(entry) ==
  IF Field(entry, F_volume) # <<>>
  THEN Field(entry, F_volume)
         \o (IF Field(entry, F_pages) # <<>>
             THEN <<",", " ">> \o Field(entry, F_pages) ELSE <<>>)
  ELSE Field(entry, F_pages)

formatReferenceText(entry) ==
  LET parts == Pushed(<<
        normalizeAuthors(Field(entry, F_author)),
        IF Field(entry, F_year) # <<>>
          THEN <<"(">> \o Field(entry, F_year) \o <<")">> ELSE <<>>,
        Field(entry, F_title),
        Field(entry, F_journal),
        Field(entry, F_publisher),
        VolPagesText(entry) >>)
  IN ReplaceDotDot(Join(parts, <<".", " ">>)) \o <<".">>

\* the trailing doi or url link of a formatted reference
RefLink(entry, doiLabel) ==
  IF Field(entry, F_doi) # <<>>
  THEN <<" <a href=\"https://doi", ".", "org/">> \o escapeAttr(Field(entry, F_doi))
         \o <<"\">">> \o doiLabel \o escapeHtml(Field(entry, F_doi)) \o <<"</a>">>
  ELSE IF Field(entry, F_url) # <<>>
    THEN <<" <a href=\"">> \o escapeAttr(Field(entry, F_url)) \o <<"\">">>
           \o escapeHtml(Field(entry, F_url)) \o <<"</a>">>
    ELSE <<>>

\* the volume/pages part of formatNumberedReference
VolPagesNumbered(entry) ==
  IF Field(entry, F_volume) # <<>>
  THEN <<"vol", ".", " ">> \o escapeHtml(Field(entry, F_volume))
         \o (IF Field(entry, F_pages) # <<>>
             THEN <<",", " ", "pp", ".", " ">> \o escapeHtml(Field(entry, F_pages))
             ELSE <<>>)
  ELSE IF Field(entry, F_pages) # <<>>
    THEN <<"pp", ".", " ">> \o escapeHtml(Field(entry, F_pages))
    ELSE <<>>

formatNumberedReference(entry) ==
  LET parts == Pushed(<<
        escapeHtml(normalizeAuthors(Field(entry, F_author))),
        IF Field(entry, F_title) # <<>>
          THEN <<"\"">> \o escapeHtml(Field(entry, F_title)) \o <<"\"">> ELSE <<>>,
        IF Field(entry, F_journal) # <<>>
          THEN <<"<em>">> \o escapeHtml(Field(entry, F_journal)) \o <<"</em>">>
          ELSE <<>>,
        escapeHtml(Field(entry, F_publisher)),
        VolPagesNumbered(entry),
        escapeHtml(Field(entry, F_year)) >>)
  IN Join(parts, <<",", " ">>) \o <<".">> \o RefLink(entry, <<"doi:">>)

\* the journal part of formatAPAReference, or the publisher without a journal
JournalAPA(entry) ==
  IF Field(entry, F_journal) # <<>>
  THEN <<"<em>">> \o escapeHtml(Field(entry, F_journal)) \o <<"</em>">>
         \o (IF Field(entry, F_volume) # <<>>
             THEN <<",", " ", "<em>">> \o escapeHtml(Field(entry, F_volume))
                    \o <<"</em>">>
             ELSE <<>>)
         \o (IF Field(entry, F_pages) # <<>>
             THEN <<",", " ">> \o escapeHtml(Field(entry, F_pages)) ELSE <<>>)
  ELSE escapeHtml(Field(entry, F_publisher))

formatAPAReference(entry) ==
  LET parts == Pushed(<<
        escapeHtml(formatAPAAuthors(Field(entry, F_author))),
        IF Field(entry, F_year) # <<>>
          THEN <<"(">> \o escapeHtml(Field(entry, F_year)) \o <<")">> ELSE <<>>,
        escapeHtml(Field(entry, F_title)),
        JournalAPA(entry) >>)
  IN ReplaceDotDot(Join(parts, <<".", " ">>)) \o <<".">>
       \o RefLink(entry, <<"https://doi", ".", "org/">>)

formatReferenceHTML(style, entry) ==
  IF style = "apa" THEN formatAPAReference(entry)
  ELSE formatNumberedReference(entry)

(***************************************************************************)
(* citations.js: module state, citation tracker, inline formatters         *)
(*                                                                         *)
(* The functions below are the code's functions in state-passing form: cs  *)
(* is the record of the module's variables (_bibliography, _citationStyle, *)
(* _citedKeys, _citedKeySet, _citeCounter, _urlCitations, _urlStore), and  *)
(* a function that assigns to them returns the new record.                 *)
(***************************************************************************)

\* the cap of the persistent url list
UrlStoreMax == 50

\* the prefix of a url's identifier in the tracker
UrlPrefix == <<"_","_","u","r","l","_","_">>

\* new URL(url).hostname: the urls of the model are either
\* scheme "://" host ["/" path], or have no scheme, and then the
\* constructor throws
Hostname(url) ==
  LET p == IndexOfFrom(url, ":", 0)
      rest == Sub(url, p + 3, Len(url))
      slash == IndexOfFrom(rest, "/", 0)
      host == IF slash = -1 THEN rest ELSE Sub(rest, 0, slash)
      ok == /\ p > 0
            /\ \A j \in 1..p : IsAlpha(url[j])
            /\ Sub(url, p, p + 3) = <<":", "/", "/">>
            /\ host # <<>>
  IN [ok |-> ok, hostname |-> IF ok THEN ToLowerCase(host) ELSE <<>>]

\* resetCitationTracking that leaves the ordered list and the set
resetCitationTracking_KeepsOrder(cs) ==
  [cs EXCEPT !.citeCounter = 0, !.urlCitations = <<>>]

resetCitationTracking(cs) ==
  [cs EXCEPT !.citedKeys = <<>>, !.citedKeySet = {},
             !.citeCounter = 0, !.urlCitations = <<>>]

citationLink(number, label, titleAttr) ==
  LET title == IF titleAttr # <<>>
               THEN <<" title=\"">> \o escapeAttr(titleAttr) \o <<"\"">>
               ELSE <<>>
  IN <<"<a class=\"citation\" href=\"#ref-">> \o Digits(number) \o <<"\"">>
       \o title \o <<">">> \o label \o <<"</a>">>

\* a trackCitation that counts a repeat as well
trackCitation_CountsRepeats(cs, key) ==
  IF key \in cs.citedKeySet
  THEN [cs |-> [cs EXCEPT !.citeCounter = @ + 1],
        number |-> IndexOf(cs.citedKeys, key) + 1]
  ELSE [cs |-> [cs EXCEPT !.citeCounter = @ + 1,
                          !.citedKeys = Append(@, key),
                          !.citedKeySet = @ \cup {key}],
        number |-> cs.citeCounter + 1]

trackCitation(cs, key) ==
  IF key \in cs.citedKeySet
  THEN [cs |-> cs, number |-> IndexOf(cs.citedKeys, key) + 1]
  ELSE [cs |-> [cs EXCEPT !.citeCounter = @ + 1,
                          !.citedKeys = Append(@, key),
                          !.citedKeySet = @ \cup {key}],
        number |-> cs.citeCounter + 1]

\* the label [n] of the numbered style
NumberLabel(number) == <<"[">> \o Digits(number) \o <<"]">>

Year_nd == <<"n", ".", "d", ".">>

\* the inline error marker of an unknown key
CitationError(key) ==
  <<"<span class=\"citation-error\">", "[", "@">> \o escapeHtml(key)
    \o <<"]", "</span>">>

\* a variant that takes a number before it looks the key up
formatInlineCitation_TracksFirst(cs, key) ==
  LET lowerKey == ToLowerCase(key)
      t == trackCitation(cs, lowerKey)
  IN IF lowerKey \notin DOMAIN cs.bibliography
     THEN [cs |-> t.cs, number |-> 0, html |-> CitationError(key)]
     ELSE [cs |-> t.cs, number |-> t.number,
           html |-> citationLink(t.number, NumberLabel(t.number),
                                 formatReferenceText(cs.bibliography[lowerKey]))]

formatInlineCitation(cs, key) ==
  LET lowerKey == ToLowerCase(key)
      known == lowerKey \in DOMAIN cs.bibliography
      entry == cs.bibliography[lowerKey]
      t == trackCitation(cs, lowerKey)
      refText == formatReferenceText(entry)
      lastName == getLastName(Field(entry, F_author))
      year == IF Field(entry, F_year) # <<>> THEN Field(entry, F_year)
              ELSE Year_nd
  IN IF ~known
     THEN [cs |-> cs, number |-> 0, html |-> CitationError(key)]
     ELSE [cs |-> t.cs, number |-> t.number,
           html |-> IF cs.citationStyle = "apa"
                    THEN citationLink(t.number,
                           <<"(">> \o escapeHtml(lastName) \o <<",", " ">>
                             \o escapeHtml(year) \o <<")">>,
                           refText)
                    ELSE citationLink(t.number, NumberLabel(t.number), refText)]

\* the first record of a url list with this url (0 when there is none)
FindUrl(list, url) ==
  LET hits == {j \in 1..Len(list) : list[j].url = url}
  IN IF hits = {} THEN 0 ELSE SetMin(hits)

addToUrlStore(cs, url, name) ==
  LET idx == FindUrl(cs.urlStore, url)
      pushed == Append(cs.urlStore, [url |-> url, name |-> name])
  IN IF idx # 0
     THEN IF name # <<>>
          THEN [cs EXCEPT !.urlStore[idx].name = name]
          ELSE cs
     ELSE [cs EXCEPT !.urlStore =
             IF Len(pushed) > UrlStoreMax THEN Tail(pushed) ELSE pushed]

\* a variant in which the first name given to a url stays
formatInlineUrlCitation_KeepsFirstName(cs, url, name) ==
  LET cs1 == addToUrlStore(cs, url, name)
      existing == FindUrl(cs1.urlCitations, url)
      t == trackCitation(cs1, UrlPrefix \o url)
      cs3 == IF existing = 0
             THEN [t.cs EXCEPT !.urlCitations =
                     Append(@, [url |-> url, name |-> name,
                                number |-> t.number])]
             ELSE t.cs
  IN [cs |-> cs3, number |-> t.number,
      html |-> citationLink(t.number, NumberLabel(t.number),
                            IF name # <<>> THEN name ELSE url)]

\* name is the empty text when the caller passes none
formatInlineUrlCitation(cs, url, name) ==
  LET h == Hostname(url)
      domain == IF h.ok THEN h.hostname ELSE url
      displayName == IF name # <<>> THEN name ELSE domain
      cs1 == addToUrlStore(cs, url, name)
      urlKey == UrlPrefix \o url
      existing == FindUrl(cs1.urlCitations, url)
      cs2 == IF existing # 0 /\ name # <<>>
             THEN [cs1 EXCEPT !.urlCitations[existing].name = name]
             ELSE cs1
      t == trackCitation(cs2, urlKey)
      cs3 == IF existing = 0
             THEN [t.cs EXCEPT !.urlCitations =
                     Append(@, [url |-> url, name |-> name,
                                number |-> t.number])]
             ELSE t.cs
      titleAttr == IF name # <<>> THEN name ELSE url
  IN [cs |-> cs3, number |-> t.number,
      html |-> IF cs.citationStyle = "apa"
               THEN citationLink(t.number,
                      <<"(">> \o escapeHtml(displayName) \o <<")">>, titleAttr)
               ELSE citationLink(t.number, NumberLabel(t.number), titleAttr)]

\* a variant whose anchors count from 0
ReferenceItem_ZeroBased(cs, num) ==
  LET key == cs.citedKeys[num]
      li == <<"<li id=\"ref-">> \o Digits(num - 1) \o <<"\">">>
      url == Sub(key, 7, Len(key))
      link == <<"<a href=\"">> \o escapeAttr(url) \o <<"\">">>
                \o escapeHtml(url) \o <<"</a>">>
  IN IF StartsWith(key, UrlPrefix) THEN li \o link \o <<"</li>">>
     ELSE IF key \in DOMAIN cs.bibliography
          THEN li \o formatReferenceHTML(cs.citationStyle, cs.bibliography[key])
                 \o <<"</li>">>
          ELSE <<>>

\* the list item of the i-th tracked identifier (1-based, num = i)
ReferenceItem(cs, num) ==
  LET key == cs.citedKeys[num]
      li == <<"<li id=\"ref-">> \o Digits(num) \o <<"\">">>
      url == Sub(key, 7, Len(key))
      u == FindUrl(cs.urlCitations, url)
      urlName == IF u # 0 THEN cs.urlCitations[u].name ELSE <<>>
      link == <<"<a href=\"">> \o escapeAttr(url) \o <<"\">">>
                \o escapeHtml(url) \o <<"</a>">>
  IN IF StartsWith(key, UrlPrefix)
     THEN IF urlName # <<>>
          THEN li \o escapeHtml(urlName) \o <<".", " ">> \o link \o <<"</li>">>
          ELSE li \o link \o <<"</li>">>
     ELSE IF key \in DOMAIN cs.bibliography
          THEN li \o formatReferenceHTML(cs.citationStyle, cs.bibliography[key])
                 \o <<"</li>">>
          ELSE <<>>

renderReferencesSection(cs) ==
  IF Len(cs.citedKeys) = 0 THEN <<>>
  ELSE <<"<div class=\"references\"><h2>References</h2><ol class=\"references-list\">">>
         \o Flatten([n \in 1..Len(cs.citedKeys) |-> ReferenceItem(cs, n)])
         \o <<"</ol></div>">>

\* setCitationStyle that takes any value
setCitationStyle_AnyValue(cs, style) == [cs EXCEPT !.citationStyle = style]

setCitationStyle(cs, style) ==
  IF style = "numbered" \/ style = "apa"
  THEN [cs EXCEPT !.citationStyle = style]
  ELSE cs

\* loadBibliography that replaces the Store by what it parsed
loadBibliography_Replaces(cs, bibText) ==
  [cs EXCEPT !.bibliography = parseBibTeX(bibText)]

loadBibliography(cs, bibText) ==
  [cs EXCEPT !.bibliography = Spread(@, parseBibTeX(bibText))]

clearBibliography(cs) == [cs EXCEPT !.bibliography = EmptyMap]

(***************************************************************************)
(* parser.js: the inline pass                                              *)
(*                                                                         *)
(* ps is the state an inline pass reads and writes: cs (the module state   *)
(* of citations.js), sn and mn (_snCounter, _mnCounter) and placeholders   *)
(* (the local list of parseInline).  Each rewriting stage is a global      *)
(* regex replace: the leftmost match from the cursor is replaced, and the  *)
(* search goes on after it.  A match is [end, alt, g]: the 0-based index   *)
(* after its last character (-1: no match at this position), the           *)
(* alternative that matched, and the captured groups.                      *)
(***************************************************************************)

\* the character \x00
NUL == "NUL"

\* the backtick character
BT == "BT"

NoMatch == [end |-> -1, alt |-> 0, g |-> <<>>]

\* /`([^`]+)`/
CodeMatch(text, p) ==
  LET q == IndexOfFrom(text, BT, p + 1)
  IN IF At(text, p) = BT /\ q > p + 1
     THEN [end |-> q + 1, alt |-> 1, g |-> <<Sub(text, p + 1, q)>>]
     ELSE NoMatch

\* /\$([^\$\n]+?)\$/
MathMatch(text, p) ==
  LET q == SkipUntil(text, p + 1, {"$", "\n"})
  IN IF At(text, p) = "$" /\ q > p + 1 /\ At(text, q) = "$"
     THEN [end |-> q + 1, alt |-> 1, g |-> <<Sub(text, p + 1, q)>>]
     ELSE NoMatch

\* /\{tag:([^}]+)\}/ for an opening text such as {sn:
TagMatch(text, p, open) ==
  LET q == IndexOfFrom(text, "}", p + Len(open))
  IN IF At(text, p) = "{" /\ Sub(text, p, p + Len(open)) = open
          /\ q > p + Len(open)
     THEN [end |-> q + 1, alt |-> 1, g |-> <<Sub(text, p + Len(open), q)>>]
     ELSE NoMatch

Open_sn == <<"{", "s", "n", ":">>
Open_mn == <<"{", "m", "n", ":">>
Open_newthought == <<"{", "n","e","w","t","h","o","u","g","h","t", ":">>
Open_url == <<"@", "u", "r", "l", "[">>

KeyChars == Letters \cup DigitSet \cup {"_", ":", "-"}      \* [\w:-]

\* /@url\[([^\]]*)\]\[([^\]]+)\]|@url\[([^\]]+)\]|(?<!\w)@([a-zA-Z][\w:-]*)/
CiteMatch(text, p) ==
  LET q1 == IndexOfFrom(text, "]", p + 5)
      q2 == IndexOfFrom(text, "]", q1 + 2)
      isUrl == Sub(text, p, p + 5) = Open_url
      keyEnd == SkipWhile(text, p + 2, KeyChars)
  IN IF At(text, p) # "@" THEN NoMatch
     ELSE IF isUrl /\ q1 # -1 /\ At(text, q1 + 1) = "[" /\ q2 > q1 + 2
       THEN [end |-> q2 + 1, alt |-> 1,
             g |-> <<Sub(text, p + 5, q1), Sub(text, q1 + 2, q2)>>]
     ELSE IF isUrl /\ q1 > p + 5
       THEN [end |-> q1 + 1, alt |-> 2, g |-> <<Sub(text, p + 5, q1)>>]
     ELSE IF ~IsWord(At(text, p - 1)) /\ IsAlpha(At(text, p + 1))
       THEN [end |-> keyEnd, alt |-> 3, g |-> <<Sub(text, p + 1, keyEnd)>>]
     ELSE NoMatch

Mod_margin == <<"{", "m","a","r","g","i","n", "}">>
Mod_fullwidth == <<"{", "f","u","l","l","w","i","d","t","h", "}">>

\* /!\[([^\]]*)\](?:\[([^\]]*)\])?\(([^)]+)\)(?:\{(margin|fullwidth)\})?/
\* the groups are caption, size, url, modifier; alt is 2 when the size
\* group took part in the match
ImageMatch(text, p) ==
  LET c1 == IndexOfFrom(text, "]", p + 2)
      hasSize == At(text, c1 + 1) = "["
      s1 == IndexOfFrom(text, "]", c1 + 2)
      paren == IF hasSize THEN s1 + 1 ELSE c1 + 1
      u1 == IndexOfFrom(text, ")", paren + 1)
      modifier == IF Sub(text, u1 + 1, u1 + 9) = Mod_margin
                  THEN <<"m","a","r","g","i","n">>
                  ELSE IF Sub(text, u1 + 1, u1 + 12) = Mod_fullwidth
                  THEN <<"f","u","l","l","w","i","d","t","h">>
                  ELSE <<>>
  IN IF /\ At(text, p) = "!" /\ At(text, p + 1) = "["
        /\ c1 # -1
        /\ (hasSize => s1 # -1)
        /\ At(text, paren) = "("
        /\ u1 > paren + 1
     THEN [end |-> u1 + 1 + (IF modifier = <<>> THEN 0 ELSE Len(modifier) + 2),
           alt |-> IF hasSize THEN 2 ELSE 1,
           g |-> <<Sub(text, p + 2, c1),
                   IF hasSize THEN Sub(text, c1 + 2, s1) ELSE <<>>,
                   Sub(text, paren + 1, u1),
                   modifier>>]
     ELSE NoMatch

\* /\[([^\]]+)\]\(([^)]+)\)/
LinkMatch(text, p) ==
  LET l1 == IndexOfFrom(text, "]", p + 1)
      u1 == IndexOfFrom(text, ")", l1 + 2)
  IN IF At(text, p) = "[" /\ l1 > p + 1 /\ At(text, l1 + 1) = "("
          /\ u1 > l1 + 2
     THEN [end |-> u1 + 1, alt |-> 1,
           g |-> <<Sub(text, p + 1, l1), Sub(text, l1 + 2, u1)>>]
     ELSE NoMatch

\* /\*\*([^*]+)\*\*/
BoldMatch(text, p) ==
  LET q == IndexOfFrom(text, "*", p + 2)
  IN IF At(text, p) = "*" /\ At(text, p + 1) = "*" /\ q > p + 2
          /\ At(text, q + 1) = "*"
     THEN [end |-> q + 2, alt |-> 1, g |-> <<Sub(text, p + 2, q)>>]
     ELSE NoMatch

\* /\*([^*]+)\*/
ItalicMatch(text, p) ==
  LET q == IndexOfFrom(text, "*", p + 1)
  IN IF At(text, p) = "*" /\ q > p + 1
     THEN [end |-> q + 1, alt |-> 1, g |-> <<Sub(text, p + 1, q)>>]
     ELSE NoMatch

\* /\x00PH(\d+)\x00/
PlaceholderMatch(text, p) ==
  LET d == SkipWhile(text, p + 3, DigitSet)
  IN IF At(text, p) = NUL /\ At(text, p + 1) = "P" /\ At(text, p + 2) = "H"
          /\ d > p + 3 /\ At(text, d) = NUL
     THEN [end |-> d + 1, alt |-> 1, g |-> <<Sub(text, p + 3, d)>>]
     ELSE NoMatch

MatchAt(stage, text, p) ==
  CASE stage = "code" -> CodeMatch(text, p)
    [] stage = "math" -> MathMatch(text, p)
    [] stage = "sn" -> TagMatch(text, p, Open_sn)
    [] stage = "mn" -> TagMatch(text, p, Open_mn)
    [] stage = "newthought" -> TagMatch(text, p, Open_newthought)
    [] stage = "cite" -> CiteMatch(text, p)
    [] stage = "image" -> ImageMatch(text, p)
    [] stage = "link" -> LinkMatch(text, p)
    [] stage = "bold" -> BoldMatch(text, p)
    [] stage = "italic" -> ItalicMatch(text, p)
    [] stage = "restore" -> PlaceholderMatch(text, p)

\* the placeholder text of the k-th protected span
Placeholder(k) == <<NUL, "P", "H">> \o Digits(k) \o <<NUL>>

marginToggleHTML(id, labelContent, spanClass, spanContent) ==
  <<"<label class=\"margin-toggle">>
    \o (IF labelContent = <<>> THEN <<" sidenote-number">> ELSE <<>>)
    \o <<"\" for=\"">> \o id \o <<"\">">> \o labelContent \o <<"</label>">>
    \o <<"<input type=\"checkbox\" id=\"">> \o id
    \o <<"\" class=\"margin-toggle\"/>">>
    \o <<"<span class=\"">> \o spanClass \o <<"\">">> \o spanContent
    \o <<"</span>">>

\* parseInt(s, 10): -1 stands for NaN (the code only asks whether the
\* value is a number above 0)
ParseInt(s) ==
  LET i0 == SkipWhile(s, 0, SpaceChars)
      neg == At(s, i0) = "-"
      i1 == IF At(s, i0) \in {"-", "+"} THEN i0 + 1 ELSE i0
      i2 == SkipWhile(s, i1, DigitSet)
  IN IF i2 = i1 \/ neg THEN -1 ELSE DigitsValue(Sub(s, i1, i2))

\* the <img> tag of an image token
ImgTag(caption, size, url) ==
  LET sizeVal == IF size # <<>> THEN ParseInt(size) ELSE -1
      sizeStyle == IF sizeVal > 0
                   THEN <<" style=\"width:">> \o Digits(sizeVal) \o <<"%\"">>
                   ELSE <<>>
  IN <<"<img src=\"">> \o escapeAttr(url) \o <<"\" alt=\"">>
       \o escapeAttr(caption) \o <<"\"">> \o sizeStyle \o <<"/>">>

\* <figure> with an optional class, the image and the optional caption
Figure(class, imgTag, caption) ==
  <<"<figure">> \o class \o <<">">> \o imgTag
    \o (IF caption # <<>>
        THEN <<"<figcaption>">> \o caption \o <<"</figcaption>">> ELSE <<>>)
    \o <<"</figure>">>

\* the citation callback: r is what the formatter returned
CiteReplacement(ps, r) == [ps |-> [ps EXCEPT !.cs = r.cs], out |-> r.html]

\* the image callback: a margin figure, a full-width figure or a figure
ImageReplacement(ps, caption, modifier, imgTag) ==
  IF modifier = <<"m","a","r","g","i","n">>
  THEN [ps |-> [ps EXCEPT !.mn = @ + 1],
        out |-> marginToggleHTML(
                  <<"mn-fig-">> \o Digits(ps.mn + 1), <<"&#8853;">>,
                  <<"marginnote">>,
                  imgTag \o (IF caption # <<>>
                             THEN <<"<br>">> \o caption ELSE <<>>))]
  ELSE IF modifier # <<>>
  THEN [ps |-> ps,
        out |-> Figure(<<" class=\"fullwidth\"">>, imgTag, caption)]
  ELSE [ps |-> ps, out |-> Figure(<<>>, imgTag, caption)]

\* the replacement callback of a stage: the new state and the text that
\* replaces the match
Replacement(stage, ps, m) ==
  CASE stage = "code" ->
         [ps |-> [ps EXCEPT !.placeholders =
                    Append(@, <<"<code>">> \o escapeHtml(m.g[1]) \o <<"</code>">>)],
          out |-> Placeholder(Len(ps.placeholders))]
    [] stage = "math" ->
         [ps |-> [ps EXCEPT !.placeholders =
                    Append(@, <<"<span class=\"math-inline\">">>
                                \o escapeHtml(m.g[1]) \o <<"</span>">>)],
          out |-> Placeholder(Len(ps.placeholders))]
    [] stage = "sn" ->
         [ps |-> [ps EXCEPT !.sn = @ + 1],
          out |-> marginToggleHTML(<<"sn-">> \o Digits(ps.sn + 1), <<>>,
                                   <<"sidenote">>, m.g[1])]
    [] stage = "mn" ->
         [ps |-> [ps EXCEPT !.mn = @ + 1],
          out |-> marginToggleHTML(<<"mn-">> \o Digits(ps.mn + 1), <<"&#8853;">>,
                                   <<"marginnote">>, m.g[1])]
    [] stage = "newthought" ->
         [ps |-> ps,
          out |-> <<"<span class=\"newthought\">">> \o m.g[1] \o <<"</span>">>]
    [] stage = "cite" ->
         CiteReplacement(ps,
           IF m.alt = 3 THEN formatInlineCitation(ps.cs, m.g[1])
           ELSE formatInlineUrlCitation(ps.cs,
                  IF m.alt = 1 THEN m.g[2] ELSE m.g[1],
                  IF m.alt = 1 THEN m.g[1] ELSE <<>>))
    [] stage = "image" ->
         ImageReplacement(ps, m.g[1], m.g[4], ImgTag(m.g[1], m.g[2], m.g[3]))
    [] stage = "link" ->
         [ps |-> ps,
          out |-> <<"<a href=\"">> \o escapeAttr(m.g[2]) \o <<"\">">>
                    \o m.g[1] \o <<"</a>">>]
    [] stage = "bold" ->
         [ps |-> ps, out |-> <<"<strong>">> \o m.g[1] \o <<"</strong>">>]
    [] stage = "italic" ->
         [ps |-> ps, out |-> <<"<em>">> \o m.g[1] \o <<"</em>">>]
    [] stage = "restore" ->
         LET k == DigitsValue(m.g[1])
         IN [ps |-> ps,
             out |-> IF k < Len(ps.placeholders) THEN ps.placeholders[k + 1]
                     ELSE <<UNDEF>>]

\* the leftmost position from the cursor on where the stage's regex
\* matches, or -1
FirstMatch(stage, text, from) ==
  LET cands == {p \in from..(Len(text) - 1) : MatchAt(stage, text, p).end # -1}
  IN IF cands = {} THEN -1 ELSE SetMin(cands)

\* text.replace(regex, callback) with a global regex, from the cursor on:
\* ReplaceAll finds the next match, ReplaceMatch calls the callback on it,
\* ReplaceWith puts the replacement in and goes on after the match
RECURSIVE ReplaceAll(_, _, _, _, _)
ReplaceWith(stage, text, from, out, p, m, r) ==
  ReplaceAll(stage, r.ps, text, m.end, out \o Sub(text, from, p) \o r.out)

ReplaceMatch(stage, ps, text, from, out, p, m) ==
  ReplaceWith(stage, text, from, out, p, m, Replacement(stage, ps, m))

ReplaceAt(stage, ps, text, from, out, p) ==
  IF p = -1 THEN [ps |-> ps, text |-> out \o Sub(text, from, Len(text))]
  ELSE ReplaceMatch(stage, ps, text, from, out, p, MatchAt(stage, text, p))

ReplaceAll(stage, ps, text, from, out) ==
  ReplaceAt(stage, ps, text, from, out, FirstMatch(stage, text, from))

InlineStages == <<"code", "math", "sn", "mn", "newthought", "cite", "image",
                  "link", "bold", "italic", "restore">>

\* the stages from the k-th on, in order, on r = [ps, text]; no stage
\* rewrites an empty text (every pattern needs a character)
RECURSIVE RunStages(_, _)
RunStages(r, k) ==
  IF r.text = <<>> \/ k > Len(InlineStages) THEN r
  ELSE RunStages(ReplaceAll(InlineStages[k], r.ps, r.text, 0, <<>>), k + 1)

\* the placeholder list is local to one call
DropPlaceholders(r) == [r EXCEPT !.ps.placeholders = <<>>]

\* parseInline: the html and the state the call leaves
parseInline(ps, text) ==
  DropPlaceholders(
    RunStages([ps |-> [ps EXCEPT !.placeholders = <<>>], text |-> text], 1))

(***************************************************************************)
(* parser.js: the block pass                                               *)
(***************************************************************************)

\* the em dash
EmDash == "EMDASH"

\* resetCounters that leaves the margin-note counter as it is
resetCounters_KeepsMargin(ps) == [ps EXCEPT !.sn = 0]

resetCounters(ps) == [ps EXCEPT !.sn = 0, !.mn = 0]

\* fenceType that knows the code fence only
fenceType_CodeOnly(line) ==
  IF StartsWith(line, <<BT, BT, BT>>) THEN "code" ELSE "none"

\* the fence a line opens or closes: /^```/ or a line that trims to $$
fenceType(line) ==
  IF StartsWith(line, <<BT, BT, BT>>) THEN "code"
  ELSE IF Trim(line) = <<"$", "$">> THEN "math"
  ELSE "none"

\* flushBlock that pushes a block even when no line has been collected
flushBlock_Always(b) ==
  [b EXCEPT !.blocks = Append(@, Join(b.current, <<"\n">>)),
            !.blockLines = Append(@, b.currentStart),
            !.current = <<>>]

\* flushBlock that records the 1-based number of the first line
flushBlock_OneBased(b) ==
  IF Len(b.current) > 0
  THEN [b EXCEPT !.blocks = Append(@, Join(b.current, <<"\n">>)),
                 !.blockLines = Append(@, b.currentStart + 1),
                 !.current = <<>>]
  ELSE b

\* b holds the locals of the grouping loop: blocks, blockLines, current,
\* currentStart and fence
flushBlock(b) ==
  IF Len(b.current) > 0
  THEN [b EXCEPT !.blocks = Append(@, Join(b.current, <<"\n">>)),
                 !.blockLines = Append(@, b.currentStart),
                 !.current = <<>>]
  ELSE b

\* the grouping loop from line lineIdx on
RECURSIVE GroupLines(_, _, _)
GroupLines(lines, lineIdx, b) ==
  IF lineIdx >= Len(lines) THEN flushBlock(b)
  ELSE
    LET line == lines[lineIdx + 1]
        ft == fenceType(line)
        pushed == [b EXCEPT !.current = Append(@, line)]
    IN IF ft # "none" /\ ft = b.fence
       THEN GroupLines(lines, lineIdx + 1,
                       [flushBlock(pushed) EXCEPT !.fence = "none"])
       ELSE IF b.fence # "none"
       THEN GroupLines(lines, lineIdx + 1, pushed)
       ELSE IF ft # "none"
       THEN GroupLines(lines, lineIdx + 1,
                       [flushBlock(b) EXCEPT !.fence = ft,
                                             !.currentStart = lineIdx,
                                             !.current = <<line>>])
       ELSE IF Trim(line) = <<>>
       THEN GroupLines(lines, lineIdx + 1, flushBlock(b))
       ELSE GroupLines(lines, lineIdx + 1,
                       [pushed EXCEPT !.currentStart =
                          IF Len(b.current) = 0 THEN lineIdx ELSE @])

\* the blocks of a source text and the line each starts on
SplitBlocks(src) ==
  GroupLines(SplitChar(src, "\n"), 0,
             [blocks |-> <<>>, blockLines |-> <<>>, current |-> <<>>,
              currentStart |-> 0, fence |-> "none"])

\* ` data-line="n"`
dl(n) == <<" data-line=\"">> \o Digits(n) \o <<"\"">>

\* the <pre> of a fenced code block
CodeBlock(block, line) ==
  LET codeLines == SplitChar(block, "\n")
      lang == Trim(Sub(codeLines[1], 3, Len(codeLines[1])))
      inner == IF Len(codeLines) >= 2
               THEN SubSeq(codeLines, 2, Len(codeLines) - 1) ELSE <<>>
      code == escapeHtml(Join(inner, <<"\n">>))
  IN <<"<pre">> \o dl(line) \o <<">", "<code">>
       \o (IF lang # <<>>
           THEN <<" class=\"language-">> \o lang \o <<"\"">> ELSE <<>>)
       \o <<">">> \o code \o <<"</code></pre>", "\n">>

\* group 1 of /^\$\$([\s\S]*?)\$\$$/, trimmed; empty when there is no
\* match or nothing but whitespace between the delimiters
MathBlockContent(block) ==
  IF Len(block) >= 4 /\ Sub(block, 0, 2) = <<"$", "$">>
       /\ Sub(block, Len(block) - 2, Len(block)) = <<"$", "$">>
  THEN Trim(Sub(block, 2, Len(block) - 2))
  ELSE <<>>

\* /^---+$/ on the trimmed block
IsRule(block) ==
  LET t == Trim(block)
  IN Len(t) >= 3 /\ \A j \in 1..Len(t) : t[j] = "-"

\* /^(#{1,6})\s+(.+)$/ : the level (0: no match) and the heading text.
\* \s+ is greedy and gives back just enough for .+ to reach the end of the
\* block without crossing a line break.
HeadingMatch(block) ==
  LET n == SkipWhile(block, 0, {"#"})
      w == SkipWhile(block, n, SpaceChars)
      splits == {k \in (n + 1)..w :
                   /\ k < Len(block)
                   /\ \A j \in k..(Len(block) - 1) : At(block, j) # "\n"}
  IN IF n \in 1..6 /\ splits # {}
     THEN [level |-> n, text |-> Sub(block, SetMax(splits), Len(block))]
     ELSE [level |-> 0, text |-> <<>>]

\* a heading of level 2 or 3 that opens its section without closing the
\* open one
HeadingSectionTags_NoClose(level, inSection, openedImplicitSection) ==
  IF level = 2 \/ level = 3 THEN <<"<section>", "\n">> ELSE <<>>

\* the section tags a heading of this level emits before itself
HeadingSectionTags(level, inSection, openedImplicitSection) ==
  IF level = 2 \/ level = 3
  THEN (IF inSection \/ openedImplicitSection
        THEN <<"</section>", "\n">> ELSE <<>>) \o <<"<section>", "\n">>
  ELSE <<>>

\* l.replace(/^>\s?/, '')
StripQuote(l) ==
  IF At(l, 0) = ">"
  THEN (IF IsSpace(At(l, 1)) THEN Sub(l, 2, Len(l)) ELSE Sub(l, 1, Len(l)))
  ELSE l

\* /^—\s*/.test(s) || /^--\s*/.test(s)
IsAttribution(s) == At(s, 0) = EmDash \/ Sub(s, 0, 2) = <<"-", "-">>

\* s.replace(/^—\s*/, '').replace(/^--\s*/, '')
StripAttribution(s) ==
  LET a == IF At(s, 0) = EmDash
           THEN Sub(s, SkipWhile(s, 1, SpaceChars), Len(s)) ELSE s
  IN IF Sub(a, 0, 2) = <<"-", "-">>
     THEN Sub(a, SkipWhile(a, 2, SpaceChars), Len(a)) ELSE a

\* the loop over the lines of a blockquote, from the k-th on
RECURSIVE QuoteParts(_, _, _, _)
QuoteParts(bqLines, k, contentLines, footer) ==
  IF k > Len(bqLines)
  THEN [contentLines |-> contentLines, footer |-> footer]
  ELSE LET stripped == StripQuote(bqLines[k])
       IN IF IsAttribution(stripped)
          THEN QuoteParts(bqLines, k + 1, contentLines,
                          StripAttribution(stripped))
          ELSE QuoteParts(bqLines, k + 1, Append(contentLines, stripped),
                          footer)

\* the content and the footer of a blockquote block: the texts its
\* template runs through parseInline, in the order it runs them
QuoteTexts(parts) ==
  IF parts.footer # <<>>
  THEN <<Join(parts.contentLines, <<" ">>), parts.footer>>
  ELSE <<Join(parts.contentLines, <<" ">>)>>

\* /^[-*]\s/ and /^\d+\.\s/
IsBullet(l) == At(l, 0) \in {"-", "*"} /\ IsSpace(At(l, 1))
IsNumbered(l) ==
  LET d == SkipWhile(l, 0, DigitSet)
  IN d > 0 /\ At(l, d) = "." /\ IsSpace(At(l, d + 1))

\* l.replace(/^[-*]\s+/, '') and l.replace(/^\d+\.\s+/, '') on a matching line
StripBullet(l) == Sub(l, SkipWhile(l, 1, SpaceChars), Len(l))
StripNumbered(l) ==
  Sub(l, SkipWhile(l, SkipWhile(l, 0, DigitSet) + 1, SpaceChars), Len(l))

\* the item texts of a list block: the matching lines, marker removed
RECURSIVE ItemTexts(_, _, _)
ItemTexts(lines, k, ordered) ==
  IF k > Len(lines) THEN <<>>
  ELSE IF ordered /\ IsNumbered(lines[k])
  THEN <<StripNumbered(lines[k])>> \o ItemTexts(lines, k + 1, ordered)
  ELSE IF ~ordered /\ IsBullet(lines[k])
  THEN <<StripBullet(lines[k])>> \o ItemTexts(lines, k + 1, ordered)
  ELSE ItemTexts(lines, k + 1, ordered)

\* block.replace(/\n/g, ' ')
JoinLines(block) ==
  [j \in 1..Len(block) |-> IF block[j] = "\n" THEN " " ELSE block[j]]

\* the branch of the assembly loop a block takes, in the order the loop
\* tests them, with what the branch captures: the heading level and the
\* texts the branch passes to parseInline, in the order it does
Classify(block) ==
  IF StartsWith(block, <<BT, BT, BT>>)
  THEN [kind |-> "code", level |-> 0, texts |-> <<>>]
  ELSE IF MathBlockContent(block) # <<>>
  THEN [kind |-> "math", level |-> 0, texts |-> <<>>]
  ELSE IF IsRule(block)
  THEN [kind |-> "rule", level |-> 0, texts |-> <<>>]
  ELSE IF HeadingMatch(block).level # 0
  THEN [kind |-> "heading", level |-> HeadingMatch(block).level,
        texts |-> <<HeadingMatch(block).text>>]
  ELSE IF At(block, 0) = ">" /\ IsSpace(At(block, 1))
  THEN [kind |-> "quote", level |-> 0,
        texts |-> QuoteTexts(QuoteParts(SplitChar(block, "\n"), 1, <<>>, <<>>))]
  ELSE IF IsBullet(block)
  THEN [kind |-> "ul", level |-> 0,
        texts |-> ItemTexts(SplitChar(block, "\n"), 1, FALSE)]
  ELSE IF IsNumbered(block)
  THEN [kind |-> "ol", level |-> 0,
        texts |-> ItemTexts(SplitChar(block, "\n"), 1, TRUE)]
  ELSE [kind |-> "p", level |-> 0, texts |-> <<JoinLines(block)>>]

\* parseInline on each text in order: acc holds the state and the html of
\* the texts done so far
RECURSIVE InlineAll(_, _)
InlineNext(acc, texts, r) ==
  InlineAll([ps |-> r.ps, outs |-> Append(acc.outs, r.text)], texts)

InlineAll(acc, texts) ==
  IF Len(acc.outs) = Len(texts) THEN acc
  ELSE InlineNext(acc, texts, parseInline(acc.ps, texts[Len(acc.outs) + 1]))

\* <li>item</li> for each item
RECURSIVE ListItems(_)
ListItems(outs) ==
  IF Len(outs) = 0 THEN <<>>
  ELSE <<"<li>">> \o outs[1] \o <<"</li>">> \o ListItems(Tail(outs))

\* the tag that opens the implicit section, when the block needs one
ImplicitSectionTag(inSection, openedImplicitSection) ==
  IF ~inSection /\ ~openedImplicitSection
  THEN <<"<section>", "\n">> ELSE <<>>

\* the html a block appends: c is its branch, outs the html parseInline
\* returned for its texts
BlockHTML(c, block, line, outs, inSection, openedImplicitSection) ==
  CASE c.kind = "code" -> CodeBlock(block, line)
    [] c.kind = "math" ->
         <<"<div class=\"math-display\"">> \o dl(line) \o <<">">>
           \o escapeHtml(MathBlockContent(block)) \o <<"</div>", "\n">>
    [] c.kind = "rule" -> <<"<hr">> \o dl(line) \o <<"/>", "\n">>
    [] c.kind = "heading" ->
         HeadingSectionTags(c.level, inSection, openedImplicitSection)
           \o <<"<h">> \o Digits(c.level) \o dl(line) \o <<">">> \o outs[1]
           \o <<"</h">> \o Digits(c.level) \o <<">", "\n">>
    [] c.kind = "quote" ->
         ImplicitSectionTag(inSection, openedImplicitSection)
           \o (IF Len(outs) = 2
               THEN <<"<div class=\"epigraph\"">> \o dl(line)
                      \o <<">", "<blockquote><p>">> \o outs[1]
                      \o <<"</p><footer>">> \o outs[2]
                      \o <<"</footer></blockquote></div>", "\n">>
               ELSE <<"<blockquote">> \o dl(line) \o <<">", "<p>">>
                      \o outs[1] \o <<"</p></blockquote>", "\n">>)
    [] c.kind = "ul" ->
         ImplicitSectionTag(inSection, openedImplicitSection)
           \o <<"<ul">> \o dl(line) \o <<">">> \o ListItems(outs)
           \o <<"</ul>", "\n">>
    [] c.kind = "ol" ->
         ImplicitSectionTag(inSection, openedImplicitSection)
           \o <<"<ol">> \o dl(line) \o <<">">> \o ListItems(outs)
           \o <<"</ol>", "\n">>
    [] c.kind = "p" ->
         ImplicitSectionTag(inSection, openedImplicitSection)
           \o <<"<p">> \o dl(line) \o <<">">> \o outs[1] \o <<"</p>", "\n">>

\* the kinds of block the loop emits without looking at the section state
NoSectionKinds == {"code", "math", "rule"}

\* one iteration of the assembly loop, given the branch c of the block and
\* the result r of its parseInline calls: the state the iteration leaves
\* and the html it appends
BlockResult(c, r, block, line, inSection, openedImplicitSection) ==
  [ps |-> r.ps,
   inSection |-> inSection \/ (c.kind = "heading" /\ c.level \in {2, 3}),
   openedImplicitSection |->
     IF c.kind \in NoSectionKinds THEN openedImplicitSection
     ELSE IF c.kind = "heading"
     THEN openedImplicitSection /\ c.level \notin {2, 3}
     ELSE openedImplicitSection \/ ~inSection,
   out |-> BlockHTML(c, block, line, r.outs, inSection,
                     openedImplicitSection)]

RenderClassified(c, ps, block, line, inSection, openedImplicitSection) ==
  BlockResult(c, InlineAll([ps |-> ps, outs |-> <<>>], c.texts),
              block, line, inSection, openedImplicitSection)

RenderBlock(ps, block, line, inSection, openedImplicitSection) ==
  RenderClassified(Classify(block), ps, block, line, inSection,
                   openedImplicitSection)

\* the tag that closes the section left open after the last block
ClosingSectionTag(inSection, openedImplicitSection) ==
  IF inSection \/ openedImplicitSection
  THEN <<"</section>", "\n">> ELSE <<>>

(***************************************************************************)
(* State                                                                   *)
(***************************************************************************)

VARIABLES
  bibliography,    \* _bibliography: lowercased key -> entry
  citationStyle,   \* _citationStyle
  citedKeys,       \* _citedKeys: identifiers in the order they were tracked
  citedKeySet,     \* _citedKeySet
  citeCounter,     \* _citeCounter
  urlCitations,    \* _urlCitations: records {url, name, number}
  urlStore,        \* _urlStore: the persistent url list for autocomplete
  snCounter,       \* _snCounter of parser.js
  mnCounter,       \* _mnCounter of parser.js
  pc,              \* where the running parseMarkdown call is: "idle" (no
                   \* call), "blocks" (in the assembly loop), "done" (it
                   \* has returned html)
  src,             \* parseMarkdown: the argument
  blocks,          \* parseMarkdown: blocks
  blockLines,      \* parseMarkdown: blockLines
  blockIdx,        \* parseMarkdown: i, the block the loop is at
  html,            \* parseMarkdown: html
  inSection,       \* parseMarkdown: inSection
  openedImplicitSection,   \* parseMarkdown: openedImplicitSection
  ret,             \* the last call of the public API and what it returned
  hist,            \* history: the identifiers cited by direct formatter calls
                   \* since the last reset, in the order of their first
                   \* citation; <<"key", k>> is a bibliography key
                   \* (lowercased), <<"url", u>> a url
  prev,            \* history: one earlier render that is remembered, with
                   \* its input, style, output and tracked identifiers
  scan,            \* the running parseBibTeX call: its position, its
                   \* locals and those of the parseEntryBody call it makes
  server,          \* server.js: the files of DOCS_DIR (name -> content), the
                   \* requests whose body is still being read, and the
                   \* last response sent
  page             \* editor.js and documents.js in the browser: the
                   \* textarea, the undo history, the timers, the state of
                   \* Documents and the async handlers that are waiting

citVars == <<bibliography, citationStyle, citedKeys, citedKeySet,
             citeCounter, urlCitations, urlStore>>

parserVars == <<snCounter, mnCounter, pc, src, blocks, blockLines, blockIdx,
                html, inSection, openedImplicitSection>>

vars == <<citVars, parserVars, ret, hist, prev, scan, server, page>>

\* the module state of citations.js as one record
Cs == [bibliography |-> bibliography, citationStyle |-> citationStyle,
       citedKeys |-> citedKeys, citedKeySet |-> citedKeySet,
       citeCounter |-> citeCounter, urlCitations |-> urlCitations,
       urlStore |-> urlStore]

\* the module state of citations.js becomes cs
SetCs(cs) ==
  /\ bibliography' = cs.bibliography
  /\ citationStyle' = cs.citationStyle
  /\ citedKeys' = cs.citedKeys
  /\ citedKeySet' = cs.citedKeySet
  /\ citeCounter' = cs.citeCounter
  /\ urlCitations' = cs.urlCitations
  /\ urlStore' = cs.urlStore

\* the state an inline pass works on
Ps == [cs |-> Cs, sn |-> snCounter, mn |-> mnCounter, placeholders |-> <<>>]

\* the module state of citations.js and parser.js becomes ps
SetPs(ps) ==
  /\ SetCs(ps.cs)
  /\ snCounter' = ps.sn
  /\ mnCounter' = ps.mn

\* a call and its result
Ret(op, a, b, number, out) ==
  [op |-> op, a |-> a, b |-> b, number |-> number, html |-> out]

\* no parseBibTeX call is running
NoScan == [pc |-> "idle", text |-> <<>>, i |-> 0, entries |-> EmptyMap,
           type |-> <<>>, body |-> <<>>, key |-> <<>>, j |-> 0,
           fields |-> EmptyMap, iterations |-> 0]

\* the server after start-up: DOCS_DIR as mkdirSync made it, no request
\* being read, nothing answered
\* (uploads: the files of UPLOADS_DIR by name; other: every other file of
\* the disk by path; touched: the paths the last step handed to fs)
S_js == <<"/", "r", "/", "s", ".", "j", "s">>
Index_html == <<"/", "r", "/", "i", "n", "d", "e", "x", ".", "h", "t", "m", "l">>
P_md == <<"/", "p", ".", "m", "d">>
Sibling == <<"/", "r", "r", "/", "x">>
OtherFiles == [p \in {S_js, Index_html, P_md, Sibling} |->
                 IF p = S_js THEN <<"s">> ELSE IF p = Index_html THEN <<"i">>
                 ELSE IF p = P_md THEN <<"p">> ELSE <<"x">>]
NoServer == [files |-> EmptyMap, pending |-> {},
             res |-> [status |-> 0, body |-> <<>>],
             uploads |-> EmptyMap, other |-> OtherFiles, touched |-> {}]

\* no undo has just moved the pointer
NoUndo == [value |-> <<>>, selStart |-> -1, selEnd |-> -1]

\* the page once the script of editor.js has run over an empty document:
\* the textarea is empty, history.save() has been called once, no timer is
\* armed.  undone remembers, after an undo that moved the pointer, what the
\* textarea held before it.  _activeDoc (empty for null) and _docs (the
\* names of the cached list) are those of documents.js; flows holds the
\* calls of async functions that wait for a fetch, created counts the
\* documents made with the New button and clicks the uses of the sidebar,
\* the New button and the title field.
NoPage == [value |-> <<>>, selStart |-> 0, selEnd |-> 0,
           states |-> <<[value |-> <<>>, selStart |-> 0, selEnd |-> 0]>>,
           pointer |-> 0, undoTimer |-> FALSE, saveTimer |-> FALSE,
           undone |-> NoUndo,
           _activeDoc |-> <<>>, _docs |-> <<>>, flows |-> {}, created |-> 0,
           clicks |-> 0]

\* no render is remembered
NoPrev == [valid |-> FALSE, src |-> <<>>, style |-> "", html |-> <<>>,
           citedKeys |-> <<>>, between |-> FALSE]

(***************************************************************************)
(* Inputs of the model                                                     *)
(***************************************************************************)

\* the most distinct identifiers a render session may track
MaxCited == 3

\* @a{A,author={S, J},year=2020}@b{b,title="T"}
Bib1 == <<"@","a","{","A",",","a","u","t","h","o","r","=","{","S",","," ","J","}",
          ",","y","e","a","r","=","2","0","2","0","}",
          "@","b","{","b",",","t","i","t","l","e","=","\"","T","\"","}">>

\* @m{__url__x,}
BibU == <<"@","m","{","_","_","u","r","l","_","_","x",",","}">>

BibTexts == {Bib1, BibU}

\* the keys direct calls cite: q is in no bibliography text
CallKeys == {<<"a">>, <<"A">>, <<"b">>, <<"q">>, UrlPrefix \o <<"x">>}

Url_x == <<"x">>
Url_d == <<"s",":","/","/","D","/","p">>
CallUrls == {Url_x}

CallNames == {<<>>, <<"n">>, <<"m">>}

Styles == {"numbered", "apa", "mla"}

\* the sequences over S of length at most n
SeqsUpTo(S, n) == UNION {[1..k -> S] : k \in 0..n}

\* a document: blocks of text with a blank line between them
Doc(units) == Join(units, <<"\n", "\n">>)

\* the most blocks in a document of each family
MaxRenderBlocks == 2
MaxRerenderBlocks == 2
MaxSectionBlocks == 3

\* documents that cite: a paragraph, a heading that cites a key again in
\* another case and a key of no entry, a list item with a named url and
\* notes, an epigraph, and a quote whose attribution line comes first
U_para == <<"@","b"," ","@","a">>
U_head == <<"#","#"," ","@","A"," ","@","q">>
U_list == <<"-"," ","@","u","r","l","[","n","]","[","x","]"," ","{","s","n",":","@","b","}","{","m","n",":","c","}">>
U_epi == <<">"," ","@","u","r","l","[","x","]","\n",">"," ","-","-"," ","@","a">>
U_attrFirst == <<">"," ","-","-"," ","@","b","\n",">"," ","@","a">>
RenderUnits == {U_para, U_head, U_list, U_epi, U_attrFirst}
RenderDocs == {Doc(u) : u \in SeqsUpTo(RenderUnits, MaxRenderBlocks)}

\* documents that are rendered again and again
R_para == <<"@","b"," ","@","u","r","l","[","n","]","[","x","]"," ","{","s","n",":","@","a","}">>
R_quote == <<">"," ","-","-"," ","@","a","\n",">"," ","@","u","r","l","[","x","]"," ","@","b">>
RerenderUnits == {R_para, R_quote}
RerenderDocs == {Doc(u) : u \in SeqsUpTo(RerenderUnits, MaxRerenderBlocks)}

\* documents of every kind of block
S_para == <<"a">>
S_h1 == <<"#"," ","T">>
S_h2 == <<"#","#"," ","T">>
S_h3 == <<"#","#","#"," ","T">>
S_code == <<BT,BT,BT,"\n","c","\n",BT,BT,BT>>
S_math == <<"$","$","\n","x","\n","$","$">>
S_rule == <<"-","-","-">>
S_list == <<"-"," ","i">>
S_quote == <<">"," ","q">>
SectionUnits == {S_para, S_h1, S_h2, S_h3, S_code, S_math, S_rule, S_list,
                 S_quote}
SectionDocs == {Doc(u) : u \in SeqsUpTo(SectionUnits, MaxSectionBlocks)}

\* what direct calls cite between renders
BetweenKeys == {<<"a">>, <<"q">>}
BetweenNames == {<<>>, <<"m">>}

(***************************************************************************)
(* The public API of citations.js, called directly                         *)
(***************************************************************************)

\* the history after one more citation of id
Cited(h, id) == IF \E j \in 1..Len(h) : h[j] = id THEN h ELSE Append(h, id)

CitInit ==
  /\ bibliography = EmptyMap
  /\ citationStyle = "numbered"
  /\ citedKeys = <<>>
  /\ citedKeySet = {}
  /\ citeCounter = 0
  /\ urlCitations = <<>>
  /\ urlStore = <<>>

LoadBibliography(bibText) ==
  /\ pc = "idle"
  /\ SetCs(loadBibliography(Cs, bibText))
  /\ ret' = Ret("loadBibliography", bibText, <<>>,
                Cardinality(DOMAIN parseBibTeX(bibText)), <<>>)
  /\ UNCHANGED <<parserVars, hist, prev, scan, server, page>>

ClearBibliography ==
  /\ pc = "idle"
  /\ SetCs(clearBibliography(Cs))
  /\ ret' = Ret("clearBibliography", <<>>, <<>>, 0, <<>>)
  /\ UNCHANGED <<parserVars, hist, prev, scan, server, page>>

SetCitationStyle(style) ==
  /\ pc = "idle"
  /\ SetCs(setCitationStyle(Cs, style))
  /\ ret' = Ret("setCitationStyle", <<style>>, <<>>, 0, <<>>)
  /\ UNCHANGED <<parserVars, hist, prev, scan, server, page>>

ResetCitationTracking ==
  /\ pc = "idle"
  /\ SetCs(resetCitationTracking(Cs))
  /\ ret' = Ret("resetCitationTracking", <<>>, <<>>, 0, <<>>)
  /\ hist' = <<>>
  /\ UNCHANGED <<parserVars, prev, scan, server, page>>

FormatInlineCitation(key) ==
  LET r == formatInlineCitation(Cs, key)
      known == ToLowerCase(key) \in DOMAIN bibliography
  IN /\ pc = "idle"
     /\ citeCounter < MaxCited
     /\ SetCs(r.cs)
     /\ ret' = Ret(IF known THEN "cite" ELSE "miss", key, <<>>, r.number, r.html)
     /\ hist' = IF known THEN Cited(hist, <<"key", ToLowerCase(key)>>) ELSE hist
     /\ UNCHANGED <<parserVars, prev, scan, server, page>>

FormatInlineUrlCitation(url, name) ==
  LET r == formatInlineUrlCitation(Cs, url, name)
  IN /\ pc = "idle"
     /\ citeCounter < MaxCited
     /\ SetCs(r.cs)
     /\ ret' = Ret("urlcite", url, name, r.number, r.html)
     /\ hist' = Cited(hist, <<"url", url>>)
     /\ UNCHANGED <<parserVars, prev, scan, server, page>>

RenderReferencesSection ==
  /\ pc = "idle"
  /\ ret' = Ret("renderReferencesSection", <<>>, <<>>, 0,
                renderReferencesSection(Cs))
  /\ UNCHANGED <<citVars, parserVars, hist, prev, scan, server, page>>

\* no parseMarkdown call is running
ParserInit ==
  /\ snCounter = 0
  /\ mnCounter = 0
  /\ pc = "idle"
  /\ src = <<>>
  /\ blocks = <<>>
  /\ blockLines = <<>>
  /\ blockIdx = 0
  /\ html = <<>>
  /\ inSection = FALSE
  /\ openedImplicitSection = FALSE

Init ==
  /\ CitInit
  /\ ParserInit
  /\ ret = Ret("init", <<>>, <<>>, 0, <<>>)
  /\ hist = <<>>
  /\ prev = NoPrev
  /\ scan = NoScan
  /\ server = NoServer
  /\ page = NoPage

Next ==
  \/ \E t \in BibTexts : LoadBibliography(t)
  \/ ClearBibliography
  \/ \E s \in Styles : SetCitationStyle(s)
  \/ ResetCitationTracking
  \/ \E k \in CallKeys : FormatInlineCitation(k)
  \/ \E u \in CallUrls, n \in CallNames : FormatInlineUrlCitation(u, n)
  \/ RenderReferencesSection

Spec == Init /\ [][Next]_vars

(***************************************************************************)
(* parseMarkdown, one step of the call at a time                           *)
(***************************************************************************)

\* the call starts: the resets, then the grouping of the lines into blocks
ParseMarkdownBegin(text) ==
  /\ pc = "idle"
  /\ LET ps == resetCounters(Ps)
     IN SetPs([ps EXCEPT !.cs = resetCitationTracking(ps.cs)])
  /\ src' = text
  /\ blocks' = SplitBlocks(text).blocks
  /\ blockLines' = SplitBlocks(text).blockLines
  /\ blockIdx' = 0
  /\ html' = <<>>
  /\ inSection' = FALSE
  /\ openedImplicitSection' = FALSE
  /\ pc' = "blocks"
  /\ ret' = Ret("parseMarkdown", <<>>, <<>>, 0, <<>>)
  /\ hist' = <<>>
  /\ UNCHANGED <<prev, scan, server, page>>

\* the state after an iteration of the assembly loop with result r
BlockDone(r) ==
  /\ SetPs(r.ps)
  /\ inSection' = r.inSection
  /\ openedImplicitSection' = r.openedImplicitSection
  /\ html' = html \o r.out

\* one iteration of the assembly loop
ParseMarkdownBlock ==
  /\ pc = "blocks"
  /\ blockIdx < Len(blocks)
  /\ BlockDone(RenderBlock(Ps, blocks[blockIdx + 1], blockLines[blockIdx + 1],
                           inSection, openedImplicitSection))
  /\ blockIdx' = blockIdx + 1
  /\ UNCHANGED <<pc, src, blocks, blockLines, ret, hist, prev, scan, server, page>>

\* after the loop: the open section is closed, the references are
\* appended, and the call returns html
ParseMarkdownEnd ==
  /\ pc = "blocks"
  /\ blockIdx = Len(blocks)
  /\ html' = html \o ClosingSectionTag(inSection, openedImplicitSection)
                  \o renderReferencesSection(Cs)
  /\ pc' = "done"
  /\ UNCHANGED <<citVars, snCounter, mnCounter, src, blocks, blockLines,
                 blockIdx, inSection, openedImplicitSection, ret, hist, prev, scan, server, page>>

\* the locals of the call that has returned are gone
CallGone ==
  /\ pc' = "idle"
  /\ src' = <<>>
  /\ blocks' = <<>>
  /\ blockLines' = <<>>
  /\ blockIdx' = 0
  /\ html' = <<>>
  /\ inSection' = FALSE
  /\ openedImplicitSection' = FALSE
  /\ UNCHANGED <<citVars, snCounter, mnCounter, ret, hist, scan, server, page>>

\* the caller takes the html
Return ==
  /\ pc = "done"
  /\ CallGone
  /\ prev' = IF prev.valid /\ prev.src # src
             THEN [prev EXCEPT !.between = TRUE] ELSE prev

\* the caller takes the html, and this render is the one remembered
Remember ==
  /\ pc = "done"
  /\ CallGone
  /\ prev' = [valid |-> TRUE, src |-> src, style |-> citationStyle,
              html |-> html, citedKeys |-> citedKeys, between |-> FALSE]

\* renders of citing documents, with the bibliography loaded at some point
\* and direct formatter calls between the renders
NextRender ==
  \/ LoadBibliography(Bib1)
  \/ \E k \in BetweenKeys : FormatInlineCitation(k)
  \/ \E n \in BetweenNames : FormatInlineUrlCitation(Url_x, n)
  \/ \E d \in RenderDocs : ParseMarkdownBegin(d)
  \/ ParseMarkdownBlock
  \/ ParseMarkdownEnd
  \/ Return

SpecRender == Init /\ [][NextRender]_vars

\* the bibliography of Bib1 is loaded
InitLoaded ==
  /\ bibliography = loadBibliography(
                      [bibliography |-> EmptyMap], Bib1).bibliography
  /\ citationStyle = "numbered"
  /\ citedKeys = <<>>
  /\ citedKeySet = {}
  /\ citeCounter = 0
  /\ urlCitations = <<>>
  /\ urlStore = <<>>
  /\ ParserInit
  /\ ret = Ret("loadBibliography", Bib1, <<>>, 2, <<>>)
  /\ hist = <<>>
  /\ prev = NoPrev
  /\ scan = NoScan
  /\ server = NoServer
  /\ page = NoPage

\* renders of the same documents again and again with style switches in
\* between, one earlier render being remembered
NextRerender ==
  \/ \E s \in Styles : SetCitationStyle(s)
  \/ \E d \in RerenderDocs : ParseMarkdownBegin(d)
  \/ ParseMarkdownBlock
  \/ ParseMarkdownEnd
  \/ Return
  \/ Remember

SpecRerender == InitLoaded /\ [][NextRerender]_vars

\* renders of documents of every kind of block
NextSections ==
  \/ \E d \in SectionDocs : ParseMarkdownBegin(d)
  \/ ParseMarkdownBlock
  \/ ParseMarkdownEnd
  \/ Return

SpecSections == Init /\ [][NextSections]_vars

(***************************************************************************)
(* parseBibTeX, one loop iteration at a time                               *)
(***************************************************************************)

\* parseBibTeX(text) is called
ParseBibTeXCall(text) ==
  /\ pc = "idle"
  /\ scan.pc = "idle"
  /\ scan' = [NoScan EXCEPT !.pc = "entries", !.text = text]
  /\ UNCHANGED <<citVars, parserVars, ret, hist, prev, server, page>>

\* the state after an iteration of the entry scanner that left the loop
\* body as r says
EntryIterated(r) ==
  scan' = [scan EXCEPT
             !.pc = CASE r.kind = "break" -> "returned"
                      [] r.kind = "continue" -> "entries"
                      [] r.kind = "entry" -> "body",
             !.i = r.i, !.type = r.type, !.body = r.body,
             !.iterations = @ + 1]

\* the entry scanner: the loop test, then one iteration up to the call of
\* parseEntryBody
EntryStep ==
  /\ scan.pc = "entries"
  /\ IF scan.i < Len(scan.text)
     THEN EntryIterated(EntryIteration(scan.text, scan.i))
     ELSE scan' = [scan EXCEPT !.pc = "returned"]
  /\ UNCHANGED <<citVars, parserVars, ret, hist, prev, server, page>>

\* parseEntryBody reads the key: without a key it returns null and the
\* entry scanner goes on, otherwise the field scanner starts
BodyKeyStep ==
  /\ scan.pc = "body"
  /\ LET k == EntryKey(scan.body)
     IN scan' = IF k.key = <<>>
                THEN [scan EXCEPT !.pc = "entries"]
                ELSE [scan EXCEPT !.pc = "fields", !.key = k.key, !.j = k.j,
                                  !.fields = Put(EmptyMap, F_type, scan.type)]
  /\ UNCHANGED <<citVars, parserVars, ret, hist, prev, server, page>>

\* the state after an iteration of the field scanner with result r
FieldIterated(r) ==
  scan' = [scan EXCEPT !.j = r.j, !.fields = r.fields, !.iterations = @ + 1]

\* the field scanner: one iteration
FieldStep ==
  /\ scan.pc = "fields"
  /\ scan.j < Len(scan.body)
  /\ FieldIterated(FieldIteration(scan.body, scan.j, scan.fields))
  /\ UNCHANGED <<citVars, parserVars, ret, hist, prev, server, page>>

\* the field scanner is done: parseEntryBody returns { key, ...fields } and
\* the entry scanner stores it
FieldsReturn ==
  /\ scan.pc = "fields"
  /\ scan.j >= Len(scan.body)
  /\ scan' = [scan EXCEPT
                !.pc = "entries",
                !.entries = StoreEntry(@, Spread(Put(EmptyMap, F_key, scan.key),
                                                 scan.fields))]
  /\ UNCHANGED <<citVars, parserVars, ret, hist, prev, server, page>>

\* the caller takes the mapping
ParseBibTeXReturn ==
  /\ scan.pc = "returned"
  /\ scan' = NoScan
  /\ UNCHANGED <<citVars, parserVars, ret, hist, prev, server, page>>

ScanSteps == EntryStep \/ BodyKeyStep \/ FieldStep \/ FieldsReturn

(***************************************************************************)
(* Reading the emitted markup back                                         *)
(***************************************************************************)

\* the number written right after position p (1-based) of h
NumberAfter(h, p) == DigitsValue(Sub(h, p, SkipWhile(h, p, DigitSet)))

\* the positions of an atom in h, in increasing order
RECURSIVE SortedSeq(_)
SortedSeq(S) ==
  IF S = {} THEN <<>> ELSE <<SetMin(S)>> \o SortedSeq(S \ {SetMin(S)})

PositionsOf(h, atom) == SortedSeq({p \in 1..Len(h) : h[p] = atom})

LiOpen == "<li id=\"ref-"

\* the anchors ref-n of the list items of a references section, in order
LiAnchors(h) ==
  LET ps == PositionsOf(h, LiOpen)
  IN [j \in 1..Len(ps) |-> NumberAfter(h, ps[j])]

\* the content of the list item with anchor ref-n: what stands between its
\* <li id="ref-n"> and the next </li>
ItemAt(h, n) ==
  LET ps == {p \in 1..Len(h) : h[p] = LiOpen /\ NumberAfter(h, p) = n}
      p == SetMin(ps)
      from == SkipWhile(h, p, DigitSet) + 1
      to == SetMin({q \in from..Len(h) : h[q] = "</li>"})
  IN IF ps = {} THEN <<"no item">> ELSE Sub(h, from, to - 1)

(***************************************************************************)
(* Claims about the citation tracker (specification Spec)                  *)
(***************************************************************************)

TrackerVars == <<citedKeys, citedKeySet, citeCounter, urlCitations>>

\* the identifier the last direct formatter call cited
RetId == IF ret.op = "cite" THEN <<"key", ToLowerCase(ret.a)>>
         ELSE <<"url", ret.a>>

\* C1: within one render, the number a formatter call gives to an
\* identifier (a lowercased key present in the Store, or a literal url) is
\* 1 + the count of distinct identifiers first cited strictly before it, a
\* repeat returns that same number, and the counter advances only on a
\* first citation, so it equals the count of distinct identifiers cited.
C1_NumberIsFirstUseRank ==
  /\ ret.op \in {"cite", "urlcite"} => ret.number = IndexOf(hist, RetId) + 1
  /\ citeCounter = Len(hist)

\* C3: formatInlineCitation with a key that is not in the Store returns the
\* inline error marker with the escaped key and changes nothing of the
\* tracker (ordered list, dedup set, counter, url table); and a references
\* section has no list item for an identifier that is a key missing from
\* the Store.
C3_MissConsumesNothing ==
  /\ [][\A k \in CallKeys :
          (FormatInlineCitation(k) /\ ToLowerCase(k) \notin DOMAIN bibliography)
            => /\ UNCHANGED TrackerVars
               /\ ret'.html = <<"<span class=\"citation-error\">", "[", "@">>
                                \o escapeHtml(k) \o <<"]", "</span>">>]_vars
  /\ [](ret.op = "renderReferencesSection" =>
          \A n \in 1..Len(citedKeys) :
            (/\ ~StartsWith(citedKeys[n], UrlPrefix)
             /\ citedKeys[n] \notin DOMAIN bibliography)
              => ItemAt(ret.html, n) = <<"no item">>)

\* a miss happened while identifiers were tracked
C3_Witness ==
  /\ ret.op = "miss"
  /\ Len(citedKeys) >= 2
  /\ Len(urlCitations) >= 1

\* the tracker's identifier of a cited identifier
TrackerId(id) == IF id[1] = "url" THEN UrlPrefix \o id[2] ELSE id[2]

\* the tracker's identifiers in the order of their first use
RECURSIVE FirstUseOrder(_)
FirstUseOrder(h) ==
  IF Len(h) = 0 THEN <<>>
  ELSE LET before == FirstUseOrder(SubSeq(h, 1, Len(h) - 1))
       IN Cited(before, TrackerId(h[Len(h)]))

\* every tracked key is still in the Store (so it is when the Store was not
\* mutated during the render)
TrackedKeysInStore ==
  \A n \in 1..Len(citedKeys) :
    StartsWith(citedKeys[n], UrlPrefix) \/ citedKeys[n] \in DOMAIN bibliography

\* C4: renderReferencesSection returns the empty text exactly when no
\* identifier was cited since the last reset; otherwise, the tracked keys
\* being in the Store, it is the list header, one item per tracked
\* identifier in first-use order, and the footer, the i-th item carrying the
\* anchor ref-i (the anchor the inline markers numbered i link to).
C4_ReferencesInFirstUseOrder ==
  ret.op = "renderReferencesSection" =>
    LET order == FirstUseOrder(hist)
        n == Len(order)
    IN /\ (ret.html = <<>>) <=> (hist = <<>>)
       /\ (TrackedKeysInStore /\ n > 0) =>
            /\ LiAnchors(ret.html) = [j \in 1..n |-> j]
            /\ ret.html =
                 <<"<div class=\"references\"><h2>References</h2><ol class=\"references-list\">">>
                   \o Flatten([j \in 1..n |->
                        ReferenceItem([Cs EXCEPT !.citedKeys = order], j)])
                   \o <<"</ol></div>">>

\* a references section of three items, a url among them, was rendered
C4_Witness ==
  /\ ret.op = "renderReferencesSection"
  /\ Len(citedKeys) = 3
  /\ Len(urlCitations) = 1
  /\ TrackedKeysInStore
  /\ citedKeys[1] = <<"b">>

\* the name the url table stores for a url (empty when it stores none)
StoredName(list, url) ==
  IF FindUrl(list, url) = 0 THEN <<>> ELSE list[FindUrl(list, url)].name

\* C5: formatInlineUrlCitation always returns a citation link; a url already
\* cited in this render keeps its number; a non-empty name replaces the
\* stored name, no name or an empty one leaves the stored name; and the
\* references section shows each url with the name stored for it.
C5_UrlNameLastWins ==
  /\ [][\A u \in CallUrls, nm \in CallNames :
          FormatInlineUrlCitation(u, nm) =>
            /\ ret'.number >= 1
            /\ ret'.html[1] = "<a class=\"citation\" href=\"#ref-"
            /\ NumberAfter(ret'.html, 1) = ret'.number
            /\ FindUrl(urlCitations, u) # 0 =>
                 ret'.number = urlCitations[FindUrl(urlCitations, u)].number
            /\ StoredName(urlCitations', u) =
                 IF nm # <<>> THEN nm ELSE StoredName(urlCitations, u)]_vars
  /\ [](ret.op = "renderReferencesSection" =>
          \A j \in 1..Len(urlCitations) :
            LET rec == urlCitations[j]
                link == <<"<a href=\"">> \o escapeAttr(rec.url) \o <<"\">">>
                          \o escapeHtml(rec.url) \o <<"</a>">>
            IN ItemAt(ret.html, rec.number) =
                 IF rec.name # <<>>
                 THEN escapeHtml(rec.name) \o <<".", " ">> \o link
                 ELSE link)

\* a url that has a stored name was cited again without a name
C5_Witness ==
  /\ ret.op = "urlcite"
  /\ ret.b = <<>>
  /\ StoredName(urlCitations, ret.a) # <<>>

(***************************************************************************)
(* Reading a rendered document back                                        *)
(***************************************************************************)

CiteOpen == "<a class=\"citation\" href=\"#ref-"
RefsOpen ==
  "<div class=\"references\"><h2>References</h2><ol class=\"references-list\">"
DataLine == " data-line=\""

\* the document without its references section
Body(h) ==
  LET at == {p \in 1..Len(h) : h[p] = RefsOpen}
  IN IF at = {} THEN h ELSE SubSeq(h, 1, SetMin(at) - 1)

\* the numbers the inline markers of h link to, in the order of the markers
MarkerNumbers(h) ==
  LET at == PositionsOf(h, CiteOpen)
  IN [j \in 1..Len(at) |-> NumberAfter(h, at[j])]

\* the positions of the label of the marker that opens at position p: what
\* stands between the end of its <a ...> tag and its </a>
LabelPositions(h, p) ==
  LET gt == SetMin({q \in p..Len(h) : h[q] = ">"})
      close == SetMin({q \in gt..Len(h) : h[q] = "</a>"})
  IN (gt + 1)..(close - 1)

\* the label of the marker that opens at position p
LabelAt(h, p) ==
  LET at == LabelPositions(h, p)
  IN IF at = {} THEN <<>> ELSE SubSeq(h, SetMin(at), SetMax(at))

\* h without the labels of its markers
StripLabels(h) ==
  LET inLabel == UNION {LabelPositions(h, p) :
                          p \in {q \in 1..Len(h) : h[q] = CiteOpen}}
      kept == (1..Len(h)) \ inLabel
  IN [j \in 1..Cardinality(kept) |->
        h[CHOOSE k \in kept : Cardinality({m \in kept : m <= k}) = j]]

\* how many sections are open after the first k atoms of h
Depth(h, k) ==
  Cardinality({j \in 1..k : h[j] = "<section>"})
    - Cardinality({j \in 1..k : h[j] = "</section>"})

\* no section opens inside another, and no closing tag closes nothing
Flat(h) == \A k \in 1..Len(h) : Depth(h, k) \in {0, 1}

\* the citation tokens of a source text from the cursor on, left to right
RECURSIVE SourceTokens(_, _)
SourceTokens(text, from) ==
  LET p == FirstMatch("cite", text, from)
  IN IF p = -1 THEN <<>>
     ELSE <<MatchAt("cite", text, p)>>
            \o SourceTokens(text, MatchAt("cite", text, p).end)

\* the identifier a token cites, as the tracker writes it
TokenId(m) ==
  IF m.alt = 1 THEN UrlPrefix \o m.g[2]
  ELSE IF m.alt = 2 THEN UrlPrefix \o m.g[1]
  ELSE ToLowerCase(m.g[1])

\* the identifiers of the tokens that name a source: a url, or a key of the
\* bibliography
RECURSIVE FoundIds(_, _)
FoundIds(tokens, bib) ==
  IF Len(tokens) = 0 THEN <<>>
  ELSE IF tokens[1].alt \in {1, 2} \/ TokenId(tokens[1]) \in DOMAIN bib
  THEN <<TokenId(tokens[1])>> \o FoundIds(Tail(tokens), bib)
  ELSE FoundIds(Tail(tokens), bib)

\* a sequence without the repeats of its elements
RECURSIVE Distinct(_)
Distinct(ids) ==
  IF Len(ids) = 0 THEN <<>>
  ELSE Cited(Distinct(SubSeq(ids, 1, Len(ids) - 1)), ids[Len(ids)])

\* the distinct identifiers a source text cites, in the order of their
\* first occurrence, left to right
SourceOrder(text, bib) == Distinct(FoundIds(SourceTokens(text, 0), bib))

(***************************************************************************)
(* Claims about renders of citing documents (specification SpecRender)     *)
(***************************************************************************)

\* C2: when parseMarkdown has rendered a document, the identifiers it
\* tracked are the distinct identifiers the source cites (urls and keys of
\* the bibliography), in the order of their first occurrence in the source
\* read left to right, so that the k-th of them has number k; the inline
\* markers carry exactly the numbers 1..N and the references list has the
\* anchors ref-1..ref-N in this order.
C2_MarkersInSourceOrder ==
  pc = "done" =>
    LET order == SourceOrder(src, bibliography)
    IN /\ citedKeys = order
       /\ Range(MarkerNumbers(Body(html))) = 1..Len(order)
       /\ LiAnchors(html) = [j \in 1..Len(order) |-> j]

\* C6: when the assembly loop of a parseMarkdown call starts, the sidenote
\* and margin-note counters are 0 and the tracker's list, set, counter and
\* url table are empty, whatever was there before the call; and when the
\* call has returned, every identifier in the tracker is one the rendered
\* source cites.
C6_RenderStartsFresh ==
  /\ (pc = "blocks" /\ blockIdx = 0) =>
       /\ snCounter = 0
       /\ mnCounter = 0
       /\ citedKeys = <<>>
       /\ citedKeySet = {}
       /\ citeCounter = 0
       /\ urlCitations = <<>>
  /\ pc = "done" =>
       /\ Range(citedKeys) \subseteq Range(SourceOrder(src, bibliography))
       /\ citeCounter = Len(citedKeys)

\* a call has just started, after an earlier render or direct call that
\* cited a url; the document to render has blocks
C6_Witness ==
  /\ pc = "blocks"
  /\ blockIdx = 0
  /\ urlStore # <<>>
  /\ Len(blocks) = MaxRenderBlocks

(***************************************************************************)
(* Claims about repeated renders (specification SpecRerender)              *)
(***************************************************************************)

\* the remembered render was of the source that has just been rendered
SameSourceAgain == pc = "done" /\ prev.valid /\ prev.src = src

\* C7: a parseMarkdown call on the source of the remembered render, under
\* the style of that render (the bibliography is the same all along),
\* returns the html the remembered render returned, atom for atom.
C7_RenderIsDeterministic ==
  (SameSourceAgain /\ prev.style = citationStyle) => html = prev.html

\* the same source was rendered again under the same style, with a render
\* of another document in between, and its html has three markers or more
C7_Witness ==
  /\ SameSourceAgain
  /\ prev.style = citationStyle
  /\ prev.between
  /\ Len(MarkerNumbers(html)) >= 3

\* the label of every marker of h has the form of the style: [n] with the
\* number the marker links to, or a text in parentheses
LabelsHaveForm(h, style) ==
  \A p \in {q \in 1..Len(h) : h[q] = CiteOpen} :
    LET label == LabelAt(h, p)
    IN IF style = "numbered"
       THEN label = <<"[">> \o Digits(NumberAfter(h, p)) \o <<"]">>
       ELSE /\ Len(label) >= 2
            /\ label[1] = "("
            /\ label[Len(label)] = ")"

Appended == SubSeq(html', Len(html) + 1, Len(html'))

\* C9: in the html of a parseMarkdown call, at every step of the assembly
\* loop and when the call returns, no <section> stands inside an open
\* section and every </section> closes an open one; a section is open
\* during the loop exactly when inSection or openedImplicitSection is set,
\* and none is open when the call has returned (the references section
\* comes after the last closing tag); a heading of level 2 or 3 first
\* closes the open section, if any, then opens a section and emits its
\* heading, and a heading of another level emits no section tag.
C9_SectionsFlatAndBalanced ==
  /\ [](/\ Flat(html)
        /\ pc = "blocks" =>
             (Depth(html, Len(html)) = 1
                <=> (inSection \/ openedImplicitSection))
        /\ pc = "done" => Depth(Body(html), Len(Body(html))) = 0)
  /\ [][(ParseMarkdownBlock
           /\ Classify(blocks[blockIdx + 1]).kind = "heading") =>
          LET level == Classify(blocks[blockIdx + 1]).level
              closing == IF Depth(html, Len(html)) = 1
                         THEN <<"</section>", "\n">> ELSE <<>>
              tags == closing \o <<"<section>", "\n", "<h">>
          IN IF level \in {2, 3}
             THEN SubSeq(Appended, 1, Len(tags)) = tags
             ELSE \A j \in 1..Len(Appended) :
                    Appended[j] \notin {"<section>", "</section>"}]_vars

\* a render has returned a document of three sections: an implicit one and
\* two that headings opened
C9_Witness ==
  /\ pc = "done"
  /\ Cardinality({j \in 1..Len(html) : html[j] = "<section>"}) = 3
  /\ \E k \in 1..Len(blocks) : Classify(blocks[k]).kind # "heading"

\* the block at index k is not a heading and no heading of level 2 or 3
\* comes before it
BeforeFirstSectionHeading(k) ==
  /\ Classify(blocks[k]).kind # "heading"
  /\ \A j \in 1..(k - 1) :
       ~(Classify(blocks[j]).kind = "heading"
           /\ Classify(blocks[j]).level \in {2, 3})

\* C10: in the html of a parseMarkdown call, every block emitted so far
\* that is not a heading and comes before the first heading of level 2 or 3
\* stands inside a section (the tag that carries its data-line attribute
\* is at depth 1), and at most one <section> is not followed by a heading.
C10_PreHeadingBlocksInImplicitSection ==
  pc \in {"blocks", "done"} =>
    /\ \A k \in 1..blockIdx :
         BeforeFirstSectionHeading(k) =>
           Depth(html, PositionsOf(html, DataLine)[k]) = 1
    /\ Cardinality({p \in 1..Len(html) :
                      html[p] = "<section>" /\ At(html, p + 1) # "<h"}) <= 1

(***************************************************************************)
(* Claims about the grouping of lines into blocks (specification           *)
(* SpecBlocks)                                                             *)
(***************************************************************************)

\* the most lines in a document of SpecBlocks: without headings, and with
MaxBlockLines == 5
MaxHeadLines == 3

\* the lines of those documents: text, a blank line, a code fence, a math
\* fence and a heading
L_text == <<"a">>
L_head == <<"#", "#", " ", "T">>
L_blank == <<>>
L_code == <<BT, BT, BT>>
L_math == <<"$", "$">>
FenceLineKinds == {L_text, L_blank, L_code, L_math}
BlockLineKinds == FenceLineKinds \cup {L_head}
BlockDocs ==
  {Join(ls, <<"\n">>) : ls \in SeqsUpTo(FenceLineKinds, MaxBlockLines)}
    \cup {Join(ls, <<"\n">>) : ls \in SeqsUpTo(BlockLineKinds, MaxHeadLines)}

\* renders of documents of every arrangement of those lines
NextBlocks ==
  \/ \E d \in BlockDocs : ParseMarkdownBegin(d)
  \/ ParseMarkdownBlock
  \/ ParseMarkdownEnd
  \/ Return

SpecBlocks == Init /\ [][NextBlocks]_vars

\* the lines of the source of the running call
SrcLines == SplitChar(src, "\n")

\* a line that starts with three backticks; a line that is $$ on its own
CodeDelimiter(l) == Len(l) >= 3 /\ SubSeq(l, 1, 3) = <<BT, BT, BT>>
MathDelimiter(l) == ~CodeDelimiter(l) /\ Trim(l) = <<"$", "$">>
Delimiter(l) ==
  IF CodeDelimiter(l) THEN "code"
  ELSE IF MathDelimiter(l) THEN "math" ELSE "none"
BlankLine(l) == Trim(l) = <<>>

\* the fence that is open before the line of 0-based index i: a delimiter
\* outside a fence opens its fence, the next delimiter of the same kind
\* closes it, and nothing else changes it
RECURSIVE FenceBefore(_, _)
FenceBefore(lines, i) ==
  IF i = 0 THEN "none"
  ELSE LET f == FenceBefore(lines, i - 1)
           d == Delimiter(lines[i])
       IN IF f = "none" THEN d
          ELSE IF d = f THEN "none" ELSE f

\* the 0-based indices of the lines of block k, and the blocks line i is in
BlockSpan(k) ==
  blockLines[k]..(blockLines[k] + Len(SplitChar(blocks[k], "\n")) - 1)
BlocksOfLine(i) == {k \in 1..Len(blocks) : i \in BlockSpan(k)}

\* C11: the blocks of a parseMarkdown call are runs of consecutive source
\* lines, no line in two blocks, such that: a blank line outside a fence is
\* in no block and every other line is in one; a line inside an open fence
\* (blank lines, the delimiter of the other kind and the closing delimiter
\* included) is in the block of the line before it, and the closing
\* delimiter is the last line of its block; a delimiter outside a fence
\* starts a block; two consecutive lines outside a fence that are neither
\* blank nor delimiters are in the same block.
C11_BlocksFollowTwoFenceMachine ==
  pc \in {"blocks", "done"} =>
    LET lines == SrcLines
        n == Len(lines)
    IN /\ \A k \in 1..Len(blocks) :
            /\ BlockSpan(k) \subseteq 0..(n - 1)
            /\ blocks[k] = Join([j \in 1..Cardinality(BlockSpan(k)) |->
                                   lines[blockLines[k] + j]], <<"\n">>)
       /\ \A i \in 0..(n - 1) :
            LET l == lines[i + 1]
                f == FenceBefore(lines, i)
            IN /\ Cardinality(BlocksOfLine(i)) <= 1
               /\ (f = "none" /\ BlankLine(l)) => BlocksOfLine(i) = {}
               /\ (f # "none" \/ ~BlankLine(l)) => BlocksOfLine(i) # {}
               /\ f # "none" => BlocksOfLine(i) = BlocksOfLine(i - 1)
               /\ (f # "none" /\ Delimiter(l) = f) =>
                    \A k \in BlocksOfLine(i) : i = SetMax(BlockSpan(k))
               /\ (f = "none" /\ Delimiter(l) # "none") =>
                    \E k \in 1..Len(blocks) : blockLines[k] = i
               /\ (/\ i > 0
                   /\ f = "none" /\ FenceBefore(lines, i - 1) = "none"
                   /\ ~BlankLine(l) /\ ~BlankLine(lines[i])
                   /\ Delimiter(l) = "none") =>
                    BlocksOfLine(i) = BlocksOfLine(i - 1)

\* a call has grouped a document in which a math fence opens right after a
\* line of text and holds a blank line and a code delimiter before it closes
C11_Witness ==
  /\ pc = "done"
  /\ SrcLines = <<L_text, L_math, L_blank, L_code, L_math>>
  /\ Len(blocks) = 2

\* the 0-based indices of the lines that start a block: a delimiter outside
\* a fence, and a line outside a fence that is neither blank nor a
\* delimiter and comes first, after a blank line or after a closing delimiter
BlockStarts(lines) ==
  {i \in 0..(Len(lines) - 1) :
     /\ FenceBefore(lines, i) = "none"
     /\ \/ Delimiter(lines[i + 1]) # "none"
        \/ /\ ~BlankLine(lines[i + 1])
           /\ \/ i = 0
              \/ BlankLine(lines[i])
              \/ FenceBefore(lines, i - 1) # "none"}

\* the atoms that open a block's root element
RootOpen ==
  {"<pre", "<div class=\"math-display\"", "<hr", "<div class=\"epigraph\"",
   "<blockquote", "<ul", "<ol", "<p"}

\* the atom at position p of h is the data-line attribute of an element
\* that stands first on its line of output
OnRootElement(h, p) ==
  \/ At(h, p - 2) \in RootOpen /\ At(h, p - 3) \in {UNDEF, "\n"}
  \/ At(h, p - 3) = "<h" /\ At(h, p - 4) \in {UNDEF, "\n"}

\* the data-line values of h in output order
DataLines(h) ==
  LET at == PositionsOf(h, DataLine)
  IN [j \in 1..Len(at) |-> NumberAfter(h, at[j])]

\* C12: during the assembly loop every block done so far has emitted
\* exactly one data-line attribute, on the element that opens its output
\* (after the section tags); the recorded start of each block, and the
\* data-line values of the returned document in output order, are the
\* 0-based indices of the lines that start a block, in increasing order.
C12_DataLineIsFirstLineOfBlock ==
  pc \in {"blocks", "done"} =>
    LET starts == SortedSeq(BlockStarts(SrcLines))
        at == PositionsOf(html, DataLine)
    IN /\ blockLines = starts
       /\ Len(at) = blockIdx
       /\ \A j \in 1..Len(at) : OnRootElement(html, at[j])
       /\ DataLines(html) = SubSeq(starts, 1, blockIdx)
       /\ \A j \in 1..(Len(at) - 1) :
            NumberAfter(html, at[j]) < NumberAfter(html, at[j + 1])

\* a call has returned a document of a paragraph, two blank lines and a
\* fenced block: data-line 0 and 3
C12_Witness ==
  /\ pc = "done"
  /\ SrcLines = <<L_text, L_blank, L_blank, L_code, L_code>>
  /\ DataLines(html) = <<0, 3>>

(***************************************************************************)
(* Claims about the BibTeX parser (specification SpecBibScan)              *)
(***************************************************************************)

\* the most fragments in a bibliography text of SpecBibScan
MaxBibTokens == 4

\* the fragments those texts are made of: @a{  k,  f=  {x}  "x  }  @  1,
BibTokens ==
  {<<"@", "a", "{">>, <<"k", ",">>, <<"f", "=">>, <<"{", "x", "}">>,
   <<"\"", "x">>, <<"}">>, <<"@">>, <<"1", ",">>}
BibScanTexts == {Flatten(ts) : ts \in SeqsUpTo(BibTokens, MaxBibTokens)}

\* parseBibTeX on texts well-formed and malformed, one iteration at a time
NextBibScan ==
  \/ scan.pc = "idle" /\ \E t \in BibScanTexts : ParseBibTeXCall(t)
  \/ EntryStep
  \/ BodyKeyStep
  \/ FieldStep
  \/ FieldsReturn
  \/ ParseBibTeXReturn

SpecBibScan == Init /\ [][NextBibScan]_vars

\* C13: a call of parseBibTeX takes at most as many loop iterations as the
\* text has characters: every iteration of the entry scanner that goes on
\* to another has moved its cursor forward, and so has every iteration of
\* the field scanner, and the cursors stay within one position of the end
\* of the text they scan; what the call returns is the mapping from the
\* lowercased keys to the entries of the text.
C13_ParseBibTeXTerminates ==
  /\ [][scan.pc = "entries" /\ scan'.pc # "returned" /\ scan' # scan
          => scan'.i > scan.i]_vars
  /\ [][scan.pc = "fields" /\ scan'.pc = "fields" /\ scan' # scan
          => scan'.j > scan.j]_vars
  /\ [][scan.pc \in {"entries", "fields"} /\ scan'.pc = scan.pc
          => scan'.iterations > scan.iterations]_vars
  /\ [](/\ scan.i <= Len(scan.text)
        /\ scan.pc = "fields" => scan.j <= Len(scan.body) + 1
        /\ scan.iterations <= Len(scan.text)
        /\ scan.pc = "returned" =>
             /\ scan.entries = parseBibTeX(scan.text)
             /\ \A k \in DOMAIN scan.entries :
                  k = ToLowerCase(scan.entries[k][F_key]))

\* a call has returned the entry of a malformed body: a quote and a name
\* where a field should be
C13_Witness ==
  /\ scan.pc = "returned"
  /\ scan.text = Flatten(<<<<"@", "a", "{">>, <<"k", ",">>, <<"\"", "x">>,
                           <<"}">>>>)
  /\ DOMAIN scan.entries = {<<"k">>}
  /\ scan.iterations = 3

(***************************************************************************)
(* Claims about the bibliography store (specification SpecBib)             *)
(***************************************************************************)

\* the most complete entries before the entry that never closes
MaxGoodEntries == 2

\* complete entries, each with the key its body starts with and the fields
\* it gives:  @a{K1,t={x}}   @b{k2,}
G_K1 == [text |-> <<"@", "a", "{", "K", "1", ",", "t", "=", "{", "x", "}", "}">>,
         key |-> <<"K", "1">>,
         fields |-> [x \in {F_type, <<"t">>} |->
                       IF x = F_type THEN <<"a">> ELSE <<"x">>]]
G_k2 == [text |-> <<"@", "b", "{", "k", "2", ",", "}">>,
         key |-> <<"k", "2">>,
         fields |-> [x \in {F_type} |-> <<"b">>]]
GoodEntries == {G_K1, G_k2}

\* the first key again in lower case, with another field:  @b{k1,u={y}}
G_k1 == [text |-> <<"@", "b", "{", "k", "1", ",", "u", "=", "{", "y", "}", "}">>,
         key |-> <<"k", "1">>,
         fields |-> [x \in {F_type, <<"u">>} |->
                       IF x = F_type THEN <<"b">> ELSE <<"y">>]]

\* an entry with a field named key:  @a{K4,key={z}}
G_K4 == [text |-> <<"@", "a", "{", "K", "4", ",", "k", "e", "y", "=", "{", "z", "}", "}">>,
         key |-> <<"K", "4">>,
         fields |-> [x \in {F_type, F_key} |->
                       IF x = F_type THEN <<"a">> ELSE <<"z">>]]

\* an entry whose opening brace is never balanced:  @c{k3,t={y}
\* with nothing after it, or a complete entry:  @d{k5,}
OpenEntry == <<"@", "c", "{", "k", "3", ",", "t", "=", "{", "y", "}">>
AfterOpen == {<<>>, <<"@", "d", "{", "k", "5", ",", "}">>}

\* the entries of a sequence of complete entries, one after the other
EntriesText(gs) == Flatten([j \in 1..Len(gs) |-> gs[j].text])

\* the texts with an entry that never closes, each with the complete
\* entries before it
UnbalancedLoads ==
  {[good |-> gs, text |-> EntriesText(gs) \o OpenEntry \o rest] :
     gs \in SeqsUpTo(GoodEntries, MaxGoodEntries), rest \in AfterOpen}

\* the texts of one complete entry
SingleLoads == GoodEntries \cup {G_k1, G_K4}

BibLoadTexts ==
  {u.text : u \in UnbalancedLoads} \cup {g.text : g \in SingleLoads}

\* documents that cite the keys in either case:  @K1 @k2   and   @k4 @z
BibDocs == {<<"@", "K", "1", " ", "@", "k", "2">>, <<"@", "k", "4", " ", "@", "z">>}

\* loads, clears, style switches and renders in any order
NextBib ==
  \/ \E t \in BibLoadTexts : LoadBibliography(t)
  \/ ClearBibliography
  \/ \E st \in Styles : SetCitationStyle(st)
  \/ pc = "idle" /\ \E d \in BibDocs : ParseMarkdownBegin(d)
  \/ ParseMarkdownBlock
  \/ ParseMarkdownEnd
  \/ Return

SpecBib == Init /\ [][NextBib]_vars

\* the entry a complete entry g is parsed to, and the key it is stored under
EntryOf(g) == Spread(Put(EmptyMap, F_key, g.key), g.fields)
StoreKey(g) == ToLowerCase(g.key)

\* the store after the complete entries gs are merged into store, in order
RECURSIVE Merged(_, _)
Merged(store, gs) ==
  IF gs = <<>> THEN store
  ELSE Merged(Put(store, StoreKey(gs[1]), EntryOf(gs[1])), Tail(gs))

\* C14: a loadBibliography call on a text whose entry never closes returns
\* the number of distinct keys of the complete entries before that entry,
\* leaves the Store with those entries merged into what it held (the
\* unclosed entry and what follows it add nothing, nothing is removed) and
\* changes nothing else; parseBibTeX returns exactly those entries.
C14_UnbalancedEntryTruncates ==
  [][\A u \in UnbalancedLoads :
       (ret'.a = u.text /\ LoadBibliography(u.text)) =>
         /\ parseBibTeX(u.text) = Merged(EmptyMap, u.good)
         /\ bibliography' = Merged(bibliography, u.good)
         /\ ret'.number = Cardinality({StoreKey(u.good[j]) :
                                         j \in 1..Len(u.good)})
         /\ UNCHANGED <<citationStyle, citedKeys, citedKeySet, citeCounter,
                        urlCitations, urlStore, parserVars>>]_vars

\* a load of a complete entry, the unclosed entry and an entry after it
\* has come back, the Store holding another entry from before
C14_Witness ==
  /\ ret.op = "loadBibliography"
  /\ ret.a = G_k2.text \o OpenEntry \o <<"@", "d", "{", "k", "5", ",", "}">>
  /\ ret.number = 1
  /\ DOMAIN bibliography = {<<"k", "1">>, <<"k", "2">>}
  /\ bibliography[<<"k", "1">>] = EntryOf(G_k1)

\* the spellings of a key a caller may cite it by: as written, in lower
\* case and in upper case
UpperChar(c) ==
  IF \E j \in 1..26 : LowerLetters[j] = c
  THEN UpperLetters[CHOOSE j \in 1..26 : LowerLetters[j] = c] ELSE c
Spellings(key) ==
  {key, ToLowerCase(key), [j \in 1..Len(key) |-> UpperChar(key[j])]}

\* C15: right after loadBibliography has loaded a text of one complete
\* entry, the Store holds under the lowercased first token of the body an
\* entry whose key is that token as written, and formatInlineCitation
\* called with any spelling of the token finds the entry (it returns a
\* citation link, not the error marker).
C15_EntryStoredUnderFirstToken ==
  \A g \in SingleLoads :
    (ret.op = "loadBibliography" /\ ret.a = g.text) =>
      /\ StoreKey(g) \in DOMAIN bibliography
      /\ Field(bibliography[StoreKey(g)], F_key) = g.key
      /\ \A k \in Spellings(g.key) :
           formatInlineCitation(Cs, k).html # CitationError(k)

\* C16: a loadBibliography call sets the Store entry of every key it
\* parsed to the parsed entry, leaves every other entry as it was and adds
\* no other key; over loads, renders and style switches the Store changes
\* in a loadBibliography or clearBibliography call only, and a key leaves
\* the Store only in a clearBibliography call, which leaves it empty.
C16_LoadMergesOnlyClearRemoves ==
  /\ [][\A t \in BibLoadTexts :
          (ret'.a = t /\ LoadBibliography(t)) =>
            /\ DOMAIN bibliography' =
                 DOMAIN bibliography \cup DOMAIN parseBibTeX(t)
            /\ \A k \in DOMAIN bibliography' :
                 bibliography'[k] = IF k \in DOMAIN parseBibTeX(t)
                                    THEN parseBibTeX(t)[k]
                                    ELSE bibliography[k]]_vars
  /\ [][bibliography' # bibliography =>
          ret'.op \in {"loadBibliography", "clearBibliography"}]_vars
  /\ [][(\E k \in DOMAIN bibliography : k \notin DOMAIN bibliography') =>
          (ClearBibliography /\ bibliography' = EmptyMap)]_vars

\* a load has overwritten the entry of a key written in another case and
\* kept the entry of another key
C16_Witness ==
  /\ ret.op = "loadBibliography"
  /\ ret.a = G_k1.text
  /\ bibliography[<<"k", "1">>] = EntryOf(G_k1)
  /\ <<"k", "2">> \in DOMAIN bibliography
  /\ citeCounter > 0

(***************************************************************************)
(* Claims about protected spans (specification SpecLiteral)                *)
(***************************************************************************)

\* the most blocks in a document of SpecLiteral
MaxLiteralBlocks == 1

\* the tokens the inline pass expands: a key of the bibliography, a url, a
\* sidenote, a margin note, an image, a link, bold and italic
K_cite == <<"@", "a">>
K_url == <<"@", "u", "r", "l", "[", "x", "]">>
K_sn == <<"{", "s", "n", ":", "n", "}">>
K_mn == <<"{", "m", "n", ":", "m", "}">>
K_image == <<"!", "[", "c", "]", "(", "u", ")">>
K_link == <<"[", "l", "]", "(", "u", ")">>
K_bold == <<"*", "*", "b", "*", "*">>
K_italic == <<"*", "i", "*">>
InlineTokens ==
  {K_cite, K_url, K_sn, K_mn, K_image, K_link, K_bold, K_italic}

\* a token inside an inline code span, an inline math span, a fenced code
\* block, a display-math block, and a code span inside a math span
InCode(t) == <<BT>> \o t \o <<BT>>
InMath(t) == <<"$">> \o t \o <<"$">>
InFence(t) == <<BT, BT, BT, "\n">> \o t \o <<"\n", BT, BT, BT>>
InDisplay(t) == <<"$", "$", "\n">> \o t \o <<"\n", "$", "$">>
InCodeInMath(t) == <<"$", "x", " ", BT>> \o t \o <<BT, "$">>
ProtectedUnits ==
  UNION {{[text |-> InCode(t), token |-> t],
          [text |-> InMath(t), token |-> t],
          [text |-> InFence(t), token |-> t],
          [text |-> InDisplay(t), token |-> t],
          [text |-> InCodeInMath(t), token |-> t]} : t \in InlineTokens}

\* documents of protected tokens, each with its tokens
LiteralDocs ==
  {[text |-> Doc([j \in 1..Len(us) |-> us[j].text]),
    tokens |-> {us[j].token : j \in 1..Len(us)}] :
     us \in SeqsUpTo(ProtectedUnits, MaxLiteralBlocks)}

\* renders of those documents, the bibliography of Bib1 being loaded
NextLiteral ==
  \/ pc = "idle" /\ \E d \in LiteralDocs : ParseMarkdownBegin(d.text)
  \/ ParseMarkdownBlock
  \/ ParseMarkdownEnd
  \/ Return

SpecLiteral == InitLoaded /\ [][NextLiteral]_vars

\* sub stands in h
Contains(h, sub) ==
  \E p \in 1..(Len(h) - Len(sub) + 1) : SubSeq(h, p, p + Len(sub) - 1) = sub

\* the markup the inline pass writes when it expands a token
ExpansionAtoms ==
  {CiteOpen, "<label class=\"margin-toggle", "<figure", "<img src=\"",
   "<a href=\"", "<strong>", "<em>", "<span class=\"citation-error\">"}

\* C17: when parseMarkdown has returned a document all of whose tokens lie
\* inside inline code, inline math, a fenced code block or a display-math
\* block, each token stands in the html as written (HTML-escaped), nothing
\* the inline pass writes for a token is in the html, the tracker holds no
\* identifier, the sidenote and margin counters are zero and the html has
\* no references section.
C17_ProtectedTokensStayLiteral ==
  \A d \in LiteralDocs :
    (pc = "done" /\ src = d.text) =>
      /\ \A t \in d.tokens : Contains(html, escapeHtml(t))
      /\ \A p \in 1..Len(html) : html[p] \notin ExpansionAtoms
      /\ citeCounter = 0 /\ citedKeys = <<>> /\ urlCitations = <<>>
      /\ snCounter = 0 /\ mnCounter = 0
      /\ \A p \in 1..Len(html) : html[p] # RefsOpen

(***************************************************************************)
(* Claims about figures (specification SpecFigures)                        *)
(***************************************************************************)

\* the most blocks in a document of SpecFigures
MaxFigureBlocks == 1

\* image tokens ![caption][size](u){modifier}: the caption empty, plain or
\* citing a key; the size absent or 50; the modifier absent, margin or
\* fullwidth
FigureCaptions == {<<>>, <<"c">>, <<"@", "a">>}
FigureSizes == {<<>>, <<"[", "5", "0", "]">>}
FigureModifiers == {<<>>, Mod_margin, Mod_fullwidth}
ImageToken(caption, size, modifier) ==
  <<"!", "[">> \o caption \o <<"]">> \o size \o <<"(", "u", ")">>
    \o modifier
ImageUnits ==
  {[text |-> ImageToken(c, z, m), caption |-> c, modifier |-> m] :
     c \in FigureCaptions, z \in FigureSizes, m \in FigureModifiers}

\* documents of image tokens, one to a block
FigureDocs ==
  {[text |-> Doc([j \in 1..Len(us) |-> us[j].text]), units |-> us] :
     us \in SeqsUpTo(ImageUnits, MaxFigureBlocks)}

\* renders of those documents in either style, the bibliography of Bib1
\* being loaded
NextFigures ==
  \/ \E st \in Styles : SetCitationStyle(st)
  \/ pc = "idle" /\ \E d \in FigureDocs : ParseMarkdownBegin(d.text)
  \/ ParseMarkdownBlock
  \/ ParseMarkdownEnd
  \/ Return

SpecFigures == InitLoaded /\ [][NextFigures]_vars

\* what block k of the body of h consists of: from its data-line attribute
\* to the next one
BlockOut(h, k) ==
  LET at == PositionsOf(Body(h), DataLine)
  IN SubSeq(Body(h), at[k],
            IF k < Len(at) THEN at[k + 1] - 1 ELSE Len(Body(h)))

Has(h, atom) == \E p \in 1..Len(h) : h[p] = atom

\* C18: in the html parseMarkdown returns for a document of image tokens,
\* the block of each token holds: with {margin}, a margin-toggle label and
\* the <img> and no <figure>, with <br> exactly when the caption is not
\* empty and never a <figcaption>; with {fullwidth}, <figure
\* class="fullwidth"> opening on the <img>; with no modifier, a plain
\* <figure> opening on the <img>; and in both figure cases a <figcaption>
\* exactly when the caption is not empty.
C18_ImageRendersByModifier ==
  \A d \in FigureDocs :
    (pc = "done" /\ src = d.text) =>
      /\ Len(PositionsOf(Body(html), DataLine)) = Len(d.units)
      /\ \A k \in 1..Len(d.units) :
           LET seg == BlockOut(html, k)
               u == d.units[k]
           IN /\ u.modifier = Mod_margin =>
                   /\ Has(seg, "<label class=\"margin-toggle")
                   /\ Has(seg, "<img src=\"")
                   /\ ~Has(seg, "<figure")
                   /\ ~Has(seg, "<figcaption>")
                   /\ Has(seg, "<br>") <=> u.caption # <<>>
              /\ u.modifier = Mod_fullwidth =>
                   /\ Contains(seg, <<"<figure", " class=\"fullwidth\"", ">",
                                      "<img src=\"">>)
                   /\ Has(seg, "<figcaption>") <=> u.caption # <<>>
              /\ u.modifier = <<>> =>
                   /\ Contains(seg, <<"<figure", ">", "<img src=\"">>)
                   /\ Has(seg, "<figcaption>") <=> u.caption # <<>>

(***************************************************************************)
(* Claims about formatted references (specification SpecRefs)              *)
(***************************************************************************)

\* the fields a reference is formatted from, each with the value the
\* entries of SpecRefs give it; no value holds a period
RefFields == <<F_author, F_year, F_title, F_journal, F_publisher, F_volume,
               F_pages>>
RefValue(f) ==
  CASE f = F_author -> <<"J", "o", "h", "n", " ", "S", "m", "i", "t", "h">>
    [] f = F_year -> <<"2", "0", "2", "0">>
    [] f = F_title -> <<"T">>
    [] f = F_journal -> <<"N">>
    [] f = F_publisher -> <<"P">>
    [] f = F_volume -> <<"3">>
    [] f = F_pages -> <<"1", "-", "2">>

\* ,name={value} for each field of present, in the order of RefFields
RECURSIVE FieldsText(_, _)
FieldsText(present, j) ==
  IF j > Len(RefFields) THEN <<>>
  ELSE (IF RefFields[j] \in present
        THEN <<",">> \o RefFields[j] \o <<"=", "{">> \o RefValue(RefFields[j])
               \o <<"}">>
        ELSE <<>>) \o FieldsText(present, j + 1)

\* @a{k,...}: one entry of key k with the fields of present
RefText(present) ==
  <<"@", "a", "{", "k">> \o FieldsText(present, 1) \o <<"}">>
RefTexts == {RefText(present) : present \in SUBSET Range(RefFields)}

\* the document that cites the entry
RefDoc == <<"@", "k">>

\* a bibliography of one entry is loaded, and the document that cites it is
\* rendered in either style
NextRefs ==
  \/ bibliography = EmptyMap /\ \E t \in RefTexts : LoadBibliography(t)
  \/ \E st \in Styles : SetCitationStyle(st)
  \/ ParseMarkdownBegin(RefDoc)
  \/ ParseMarkdownBlock
  \/ ParseMarkdownEnd
  \/ Return

SpecRefs == Init /\ [][NextRefs]_vars

\* h holds no two periods in a row
NoDoublePeriod(h) == \A p \in 1..(Len(h) - 1) : ~(h[p] = "." /\ h[p + 1] = ".")

\* C19: for an entry of any subset of the fields author, year, title,
\* journal, publisher, volume and pages, in the numbered and in the apa
\* style, neither the item of the references list nor the plain reference
\* in the title of the inline marker holds two periods in a row.
C19_NoDoublePeriods ==
  /\ NoDoublePeriod(html)
  /\ \A k \in DOMAIN bibliography :
       /\ NoDoublePeriod(formatNumberedReference(bibliography[k]))
       /\ NoDoublePeriod(formatAPAReference(bibliography[k]))
       /\ NoDoublePeriod(formatReferenceText(bibliography[k]))

(***************************************************************************)
(* server.js: the documents API (specification SpecDocs)                   *)
(***************************************************************************)

\* s.endsWith('.md')
EndsWithMd(s) == Len(s) >= 3 /\ SubSeq(s, Len(s) - 2, Len(s)) = <<".", "m", "d">>

\* path.basename: trailing slashes are dropped, then what follows the last
\* slash is kept
RECURSIVE basename(_)
basename(name) ==
  IF name = <<>> THEN <<>>
  ELSE IF name[Len(name)] = "/" THEN basename(SubSeq(name, 1, Len(name) - 1))
  ELSE IF \E p \in 1..Len(name) : name[p] = "/"
       THEN LET last == CHOOSE p \in 1..Len(name) :
                          /\ name[p] = "/"
                          /\ \A q \in (p + 1)..Len(name) : name[q] # "/"
            IN SubSeq(name, last + 1, Len(name))
       ELSE name

safeName(name) == basename(name)

\* the directories of the disk; the server makes and removes none
ROOT == <<"/", "r">>
DOCS_DIR == <<"/", "r", "/", "d", "o", "c", "s">>
UPLOADS_DIR == <<"/", "r", "/", "u", "p", "l", "o", "a", "d", "s">>
Dirs == {<<"/">>, ROOT, DOCS_DIR, UPLOADS_DIR, <<"/", "r", "r">>}

\* the segments of a path with . and .. resolved, as path.normalize does
RECURSIVE ResolveSegments(_, _, _)
ResolveSegments(segs, absolute, acc) ==
  IF segs = <<>> THEN acc
  ELSE IF Head(segs) = <<>> \/ Head(segs) = <<".">>
  THEN ResolveSegments(Tail(segs), absolute, acc)
  ELSE IF Head(segs) = <<".", ".">>
  THEN IF acc # <<>> /\ acc[Len(acc)] # <<".", ".">>
       THEN ResolveSegments(Tail(segs), absolute, SubSeq(acc, 1, Len(acc) - 1))
       ELSE IF absolute THEN ResolveSegments(Tail(segs), absolute, acc)
       ELSE ResolveSegments(Tail(segs), absolute, Append(acc, Head(segs)))
  ELSE ResolveSegments(Tail(segs), absolute, Append(acc, Head(segs)))

\* path.normalize (posix): a trailing slash is kept
normalize(p) ==
  IF p = <<>> THEN <<".">>
  ELSE LET absolute == p[1] = "/"
           trailing == p[Len(p)] = "/"
           body == Join(ResolveSegments(SplitChar(p, "/"), absolute, <<>>),
                        <<"/">>)
           rel == IF body = <<>> /\ ~absolute THEN <<".">> ELSE body
           tailed == IF rel # <<>> /\ trailing THEN rel \o <<"/">> ELSE rel
       IN IF absolute THEN <<"/">> \o tailed ELSE tailed

\* path.join(a, b): the non-empty arguments joined by a slash, normalized
pathJoin(a, b) ==
  IF a = <<>> /\ b = <<>> THEN <<".">>
  ELSE IF a = <<>> THEN normalize(b)
  ELSE IF b = <<>> THEN normalize(a)
  ELSE normalize(a \o <<"/">> \o b)

\* what the file system makes of a path: without its trailing slash, and
\* the directory that holds it
StripSlash(p) ==
  IF Len(p) > 1 /\ p[Len(p)] = "/" THEN SubSeq(p, 1, Len(p) - 1) ELSE p
Parent(p) ==
  LET q == StripSlash(p)
      last == CHOOSE j \in 1..Len(q) :
                q[j] = "/" /\ \A k \in (j + 1)..Len(q) : q[k] # "/"
  IN IF last = 1 THEN <<"/">> ELSE SubSeq(q, 1, last - 1)

\* the regular files of the disk, by path
Disk(sv) ==
  LET docs == {DOCS_DIR \o <<"/">> \o n : n \in DOMAIN sv.files}
      ups == {UPLOADS_DIR \o <<"/">> \o n : n \in DOMAIN sv.uploads}
  IN [p \in docs \cup ups \cup DOMAIN sv.other |->
        IF p \in docs THEN sv.files[basename(p)]
        ELSE IF p \in ups THEN sv.uploads[basename(p)]
        ELSE sv.other[p]]

isDirectory(p) == StripSlash(p) \in Dirs
\* fs.existsSync: a path with a trailing slash exists only as a directory
existsSync(sv, p) == isDirectory(p) \/ p \in DOMAIN Disk(sv)

\* the disk with the file at p removed (fs.unlinkSync of a regular file)
Unlinked(sv, p) ==
  IF Parent(p) = DOCS_DIR
  THEN [sv EXCEPT !.files = [n \in DOMAIN @ \ {basename(p)} |-> @[n]]]
  ELSE IF Parent(p) = UPLOADS_DIR
  THEN [sv EXCEPT !.uploads = [n \in DOMAIN @ \ {basename(p)} |-> @[n]]]
  ELSE [sv EXCEPT !.other = [q \in DOMAIN @ \ {p} |-> @[q]]]

\* the disk with content written to the file at p (fs.writeFileSync to a
\* path that is no directory, in a directory that exists)
Written(sv, p, content) ==
  IF Parent(p) = DOCS_DIR
  THEN [sv EXCEPT !.files = [n \in DOMAIN @ \cup {basename(p)} |->
                               IF n = basename(p) THEN content ELSE @[n]]]
  ELSE IF Parent(p) = UPLOADS_DIR
  THEN [sv EXCEPT !.uploads = [n \in DOMAIN @ \cup {basename(p)} |->
                                 IF n = basename(p) THEN content ELSE @[n]]]
  ELSE [sv EXCEPT !.other = [q \in DOMAIN @ \cup {p} |->
                               IF q = p THEN content ELSE @[q]]]

\* a path handed to fs by the handler of an api
Touch(api, p) == [api |-> api, path |-> p]

\* an exception nobody catches ends the process: no answer, no next request
Crash == [status |-> -1, body |-> <<"uncaught exception">>]
Crashed == server.res = Crash

\* res.writeHead(status); res.end(body)
Res(status, body) == [status |-> status, body |-> body]

\* fs.writeFileSync, fs.renameSync (an existing target is replaced) and
\* fs.unlinkSync on the files of DOCS_DIR
writeFileSync(files, name, content) ==
  [n \in DOMAIN files \cup {name} |-> IF n = name THEN content ELSE files[n]]
renameSync(files, from, to) ==
  [n \in (DOMAIN files \ {from}) \cup {to} |->
     IF n = to THEN files[from] ELSE files[n]]
unlinkSync(files, name) == [n \in DOMAIN files \ {name} |-> files[n]]

\* the body of a request: text that is not JSON, the JSON value null, or a
\* JSON object whose newName is the given string (empty when it is absent)
B_text(text) == [kind |-> "text", newName |-> <<>>, text |-> text]
B_null == [kind |-> "null", newName |-> <<>>, text |-> <<>>]
B_object(newName) == [kind |-> "object", newName |-> newName, text |-> <<>>]
NoBody == B_text(<<>>)

\* a rename callback that does not look whether the target exists
PatchCallback_NoExistsCheck(files, name, body) ==
  IF body.kind = "text" THEN [files |-> files, res |-> Res(400, <<"Invalid JSON">>)]
  ELSE IF body.kind = "null"
  THEN [files |-> files, res |-> Res(400, <<"TypeError">>)]
  ELSE LET safeDst == safeName(body.newName)
       IN IF safeDst = <<>> \/ ~EndsWithMd(safeDst)
          THEN [files |-> files, res |-> Res(400, <<"Invalid new name">>)]
          ELSE IF name \notin DOMAIN files
          THEN [files |-> files, res |-> Res(404, <<"Not found">>)]
          ELSE [files |-> renameSync(files, name, safeDst),
                res |-> Res(200, safeDst)]

\* PATCH, once the body is read: the callback of readBody(req).then and its
\* .catch
PatchCallback(files, name, body) ==
  IF body.kind = "text" THEN [files |-> files, res |-> Res(400, <<"Invalid JSON">>)]
  ELSE IF body.kind = "null"
  THEN [files |-> files, res |-> Res(400, <<"TypeError">>)]
  ELSE LET safeDst == safeName(body.newName)
       IN IF safeDst = <<>> \/ ~EndsWithMd(safeDst)
          THEN [files |-> files, res |-> Res(400, <<"Invalid new name">>)]
          ELSE IF safeDst \in DOMAIN files
          THEN [files |-> files,
                res |-> Res(409, <<"A document with that name already exists">>)]
          ELSE IF name \notin DOMAIN files
          THEN [files |-> files, res |-> Res(404, <<"Not found">>)]
          ELSE [files |-> renameSync(files, name, safeDst),
                res |-> Res(200, safeDst)]

\* PUT, once the body is read
PutCallback(files, name, body) ==
  [files |-> writeFileSync(files, name, body.text), res |-> Res(200, <<"ok">>)]

\* the largest number of requests whose body is being read at one time
MaxPending == 2

\* handleDocsAPI up to its return: GET and DELETE are answered at once, PUT
\* and PATCH wait for the body with the name they were called with.  (The
\* listing, GET with an empty route, is not among the requests.)
handleDocsAPI(method, route, body) ==
  /\ ~(method = "GET" /\ route = <<>>)
  /\ LET name == safeName(route)
         files == server.files
         filePath == pathJoin(DOCS_DIR, name)
     IN IF name = <<>> \/ ~EndsWithMd(name)
        THEN server' = [server EXCEPT !.res = Res(400, <<"Invalid document name">>),
                                      !.touched = {}]
        ELSE IF method = "GET"
        THEN server' = [server EXCEPT !.res =
                          IF name \in DOMAIN files THEN Res(200, files[name])
                          ELSE Res(404, <<"Not found">>),
                          !.touched = {Touch("docs", filePath)}]
        ELSE IF method \in {"PUT", "PATCH"}
        THEN /\ Cardinality(server.pending) < MaxPending
             /\ server' = [server EXCEPT !.pending =
                             @ \cup {[method |-> method, name |-> name,
                                      body |-> body]},
                             !.touched = {}]
        ELSE IF method = "DELETE"
        THEN server' = IF name \in DOMAIN files
                       THEN [server EXCEPT !.files = unlinkSync(files, name),
                                           !.res = Res(200, <<"ok">>),
                                           !.touched = {Touch("docs", filePath)}]
                       ELSE [server EXCEPT !.res = Res(404, <<"Not found">>),
                                           !.touched = {Touch("docs", filePath)}]
        ELSE server' = [server EXCEPT !.res = Res(405, <<"Method not allowed">>),
                                      !.touched = {}]
  /\ UNCHANGED <<citVars, parserVars, ret, hist, prev, scan, page>>

\* POST /api/uploads, once the body is read: a write that throws is
\* answered 400 by the .catch
UploadCallback(sv, filename, body) ==
  LET filePath == pathJoin(UPLOADS_DIR, filename)
  IN IF isDirectory(filePath)
     THEN [sv EXCEPT !.res = Res(400, <<"EISDIR">>),
                     !.touched = {Touch("uploads", filePath)}]
     ELSE [Written(sv, filePath, body.text)
             EXCEPT !.res = Res(200, filename),
                    !.touched = {Touch("uploads", filePath)}]

\* the paths the callback of a pending docs request hands to fs
CallbackTouched(p, r) ==
  IF p.method = "PUT" THEN {Touch("docs", pathJoin(DOCS_DIR, p.name))}
  ELSE IF r.res.status \in {200, 404, 409}
  THEN {Touch("docs", pathJoin(DOCS_DIR, safeName(p.body.newName)))}
         \cup (IF r.res.status = 409 THEN {}
               ELSE {Touch("docs", pathJoin(DOCS_DIR, p.name))})
  ELSE {}

\* the body of the pending request p has arrived: its callback runs
BodyEnd(p) ==
  /\ p \in server.pending
  /\ IF p.method = "POST"
     THEN server' = [UploadCallback(server, p.name, p.body)
                       EXCEPT !.pending = @ \ {p}]
     ELSE LET r == IF p.method = "PUT"
                   THEN PutCallback(server.files, p.name, p.body)
                   ELSE PatchCallback(server.files, p.name, p.body)
          IN server' = [server EXCEPT !.files = r.files,
                                      !.pending = @ \ {p},
                                      !.res = r.res,
                                      !.touched = CallbackTouched(p, r)]
  /\ UNCHANGED <<citVars, parserVars, ret, hist, prev, scan, page>>

\* handleUploadsAPI up to its return.  (The listing, GET with an empty
\* route, is not among the requests.)
handleUploadsAPI(method, route, filename, body) ==
  /\ ~(method = "GET" /\ route = <<>>)
  /\ IF method = "POST" /\ route = <<>>
     THEN LET name == safeName(IF filename = <<>> THEN <<"u", "p", "l", "o", "a", "d">> ELSE filename)
          IN IF name = <<>>
             THEN server' = [server EXCEPT !.res = Res(400, <<"Missing filename">>),
                                           !.touched = {}]
             ELSE /\ Cardinality(server.pending) < MaxPending
                  /\ server' = [server EXCEPT !.pending =
                                  @ \cup {[method |-> "POST", name |-> name,
                                           body |-> body]},
                                  !.touched = {}]
     ELSE IF method = "DELETE" /\ route # <<>>
     THEN LET name == safeName(route)
              filePath == pathJoin(UPLOADS_DIR, name)
          IN IF ~existsSync(server, filePath)
             THEN server' = [server EXCEPT !.res = Res(404, <<"Not found">>),
                                           !.touched = {Touch("uploads", filePath)}]
             ELSE IF isDirectory(filePath)
             THEN server' = [server EXCEPT !.res = Crash,
                                           !.touched = {Touch("uploads", filePath)}]
             ELSE server' = [Unlinked(server, filePath)
                               EXCEPT !.res = Res(200, <<"ok">>),
                                      !.touched = {Touch("uploads", filePath)}]
     ELSE server' = [server EXCEPT !.res = Res(405, <<"Method not allowed">>),
                                   !.touched = {}]
  /\ UNCHANGED <<citVars, parserVars, ret, hist, prev, scan, page>>

UploadsPrefix == <<"/", "u", "p", "l", "o", "a", "d", "s", "/">>

\* serveStatic: a file of UPLOADS_DIR for /uploads/..., else the file of
\* ROOT the path names; a stream opened on a directory fails with an error
\* nobody handles
serveStatic(urlPath) ==
  /\ IF StartsWith(urlPath, UploadsPrefix)
     THEN LET name == safeName(Sub(urlPath, Len(UploadsPrefix), Len(urlPath)))
              filePath == pathJoin(UPLOADS_DIR, name)
          IN server' = [server EXCEPT
                          !.res = IF ~existsSync(server, filePath)
                                  THEN Res(404, <<"Not found">>)
                                  ELSE IF isDirectory(filePath) THEN Crash
                                  ELSE Res(200, Disk(server)[filePath]),
                          !.touched = {Touch("uploads", filePath)}]
     ELSE LET filePath == normalize(pathJoin(ROOT,
                            IF urlPath = <<"/">> THEN <<"i", "n", "d", "e", "x", ".", "h", "t", "m", "l">>
                            ELSE urlPath))
          IN IF ~StartsWith(filePath, ROOT \o <<"/">>) /\ filePath # ROOT
             THEN server' = [server EXCEPT !.res = Res(403, <<"Forbidden">>),
                                           !.touched = {}]
             ELSE server' = [server EXCEPT
                               !.res = IF ~existsSync(server, filePath)
                                          \/ isDirectory(filePath)
                                       THEN Res(404, <<"Not found">>)
                                       ELSE Res(200, Disk(server)[filePath]),
                               !.touched = {Touch("static", filePath)}]
  /\ UNCHANGED <<citVars, parserVars, ret, hist, prev, scan, page>>

DocsPrefix == <<"/", "a", "p", "i", "/", "d", "o", "c", "s">>
UploadsApiPrefix == <<"/", "a", "p", "i", "/", "u", "p", "l", "o", "a", "d", "s">>

\* urlPath.replace(/^prefix\/?/, '') for a urlPath that starts with prefix
Route(urlPath, prefix) ==
  LET rest == Sub(urlPath, Len(prefix), Len(urlPath))
  IN IF rest # <<>> /\ rest[1] = "/" THEN Tail(rest) ELSE rest

\* the request handler of http.createServer, for a decoded path other than
\* /api/bibliography
createServer(method, urlPath, filename, body) ==
  IF StartsWith(urlPath, DocsPrefix)
  THEN handleDocsAPI(method, Route(urlPath, DocsPrefix), body)
  ELSE IF StartsWith(urlPath, UploadsApiPrefix)
  THEN handleUploadsAPI(method, Route(urlPath, UploadsApiPrefix), filename, body)
  ELSE serveStatic(urlPath)

\* the requests of SpecDocs
N_a == <<"a", ".", "m", "d">>
N_b == <<"b", ".", "m", "d">>
Routes == {N_a, N_b, <<"x", "/">> \o N_a, <<"a">>, <<>>}
NewNames == {N_a, N_b, <<"x", "/">> \o N_b, <<"b">>, <<>>}
Contents == {<<"h">>, <<"u">>}
PatchBodies == {B_text(<<"h">>), B_null} \cup {B_object(n) : n \in NewNames}
DocsRequests ==
  [method : {"GET", "DELETE", "POST"}, route : Routes, body : {NoBody}]
    \cup [method : {"PUT"}, route : Routes, body : {B_text(c) : c \in Contents}]
    \cup [method : {"PATCH"}, route : Routes, body : PatchBodies]

NextDocs ==
  \/ \E q \in DocsRequests : handleDocsAPI(q.method, q.route, q.body)
  \/ \E p \in server.pending : BodyEnd(p)

SpecDocs == Init /\ [][NextDocs]_vars

\* n can be the name of a document: not empty, no slash, ends in .md
DocumentName(n) ==
  n # <<>> /\ EndsWithMd(n) /\ \A p \in 1..Len(n) : n[p] # "/"

\* C20: when the body of a PATCH for a document name arrives with a newName
\* that names an existing document, the answer is 409 and the files stay as
\* they were; when newName is a document name that no file has and the
\* source exists, the answer is 200, the old name is gone, the new name
\* holds the content the old one had, and the other files are untouched.
C20_RenameConflictsAndRenames ==
  [][\A p \in server.pending :
       (server'.pending = server.pending \ {p} /\ p.method = "PATCH"
          /\ p.body.kind = "object")
       => LET files == server.files
              dst == p.body.newName
          IN /\ dst \in DOMAIN files
                  => server'.res.status = 409 /\ server'.files = files
             /\ (DocumentName(dst) /\ dst \notin DOMAIN files
                   /\ p.name \in DOMAIN files)
                  => /\ server'.res.status = 200
                     /\ DOMAIN server'.files
                          = (DOMAIN files \ {p.name}) \cup {dst}
                     /\ server'.files[dst] = files[p.name]
                     /\ \A n \in DOMAIN files \ {p.name} :
                          server'.files[n] = files[n]]_vars

\* a rename of a.md to the name of b.md was refused: both files are there
\* with their own contents
C20_Witness ==
  /\ server.res.status = 409
  /\ server.files = [n \in {N_a, N_b} |-> IF n = N_a THEN <<"h">> ELSE <<"u">>]
  /\ server.pending = {}

(***************************************************************************)
(* server.js: the paths a request reaches (specification SpecPaths)        *)
(***************************************************************************)

\* decoded request paths: plain ones, and ones whose encoded slashes give
\* .. segments after decoding
U_doc == <<"/", "a", "p", "i", "/", "d", "o", "c", "s", "/", "a", ".", "m", "d">>
U_docUp == <<"/", "a", "p", "i", "/", "d", "o", "c", "s", "/", ".", ".", "/", ".", ".", "/", "p", ".", "m", "d">>
U_docJs == <<"/", "a", "p", "i", "/", "d", "o", "c", "s", "/", ".", ".", "/", "s", ".", "j", "s">>
U_up == <<"/", "a", "p", "i", "/", "u", "p", "l", "o", "a", "d", "s", "/", "a", ".", "p", "n", "g">>
U_upJs == <<"/", "a", "p", "i", "/", "u", "p", "l", "o", "a", "d", "s", "/", ".", ".", "/", "s", ".", "j", "s">>
U_upDots == <<"/", "a", "p", "i", "/", "u", "p", "l", "o", "a", "d", "s", "/", ".", ".", "/">>
U_upSlash == <<"/", "a", "p", "i", "/", "u", "p", "l", "o", "a", "d", "s", "/", "/">>
U_post == <<"/", "a", "p", "i", "/", "u", "p", "l", "o", "a", "d", "s">>
StaticPaths == {<<"/">>, <<"/", "s", ".", "j", "s">>, <<"/", "d", "o", "c", "s", "/", "a", ".", "m", "d">>,
                <<"/", ".", ".", "/", "p", ".", "m", "d">>, <<"/", ".", ".", "/", "r", "r", "/", "x">>, <<"/", "n", "o", "p", "e">>,
                <<"/", "u", "p", "l", "o", "a", "d", "s", "/", "a", ".", "p", "n", "g">>, <<"/", "u", "p", "l", "o", "a", "d", "s", "/", ".", ".", "/", "s", ".", "j", "s">>,
                <<"/", "u", "p", "l", "o", "a", "d", "s", "/", ".", ".", "/">>}
Filenames == {<<>>, <<"a", ".", "p", "n", "g">>, <<".", ".", "/", "s", ".", "j", "s">>, <<".", ".">>, <<"/">>}
PathRequests ==
  [method : {"GET", "DELETE"}, urlPath : {U_doc, U_docUp, U_docJs},
   filename : {<<>>}, body : {NoBody}]
    \cup [method : {"PUT"}, urlPath : {U_doc, U_docUp, U_docJs},
          filename : {<<>>}, body : {B_text(<<"h">>)}]
    \cup [method : {"DELETE", "PUT"},
          urlPath : {U_up, U_upJs, U_upDots, U_upSlash},
          filename : {<<>>}, body : {NoBody}]
    \cup [method : {"POST"}, urlPath : {U_post}, filename : Filenames,
          body : {B_text(<<"u">>)}]
    \cup [method : {"GET"}, urlPath : StaticPaths, filename : {<<>>},
          body : {NoBody}]

\* requests are served until an exception ends the process
NextPaths ==
  /\ ~Crashed
  /\ \/ \E q \in PathRequests :
          createServer(q.method, q.urlPath, q.filename, q.body)
     \/ \E p \in server.pending : BodyEnd(p)

SpecPaths == Init /\ [][NextPaths]_vars

\* the directory an api may reach into
AllowedDir(api) == IF api = "docs" THEN DOCS_DIR ELSE UPLOADS_DIR

\* C21: every path a docs or uploads request hands to fs is a file directly
\* inside docs/ or uploads/ (a docs file ending in .md), every path static
\* serving hands to fs lies inside the server root, a static answer for a
\* path outside the root is never a 200, and no file outside docs/ and
\* uploads/ is ever written or deleted.
C21_RequestsStayInTheirDirectory ==
  /\ \A t \in server.touched :
       IF t.api = "static" THEN StartsWith(t.path, ROOT \o <<"/">>) \/ t.path = ROOT
       ELSE /\ Parent(t.path) = AllowedDir(t.api)
            /\ ~isDirectory(t.path)
            /\ t.api = "docs" => EndsWithMd(t.path)
  /\ server.other = OtherFiles

(***************************************************************************)
(* generateFullHTML (specification SpecExport)                             *)
(***************************************************************************)

\* getCitationCSS: a newline before each of its eight rules
getCitationCSS ==
  <<"\n", "a.citation { text-decoration: none; color: inherit; background: none; text-shadow: none; }",
    "\n", "a.citation:hover { text-decoration: underline; }",
    "\n", ".citation-error { color: #c00; border-bottom: 1px dashed #c00; }",
    "\n", ".references { clear: both; border-top: 1px solid #ccc; margin-top: 3rem; padding-top: 1.5rem; width: 55%; }",
    "\n", ".references h2 { font-size: 1.4rem; margin-bottom: 1rem; }",
    "\n", ".references-list { padding-left: 1.5em; }",
    "\n", ".references-list li { margin-bottom: 0.75em; line-height: 1.5; overflow-wrap: anywhere; }",
    "\n", ".references-list a { word-break: break-all; background: none; text-shadow: none; text-decoration: underline; }">>

Untitled == <<"U", "n", "t", "i", "t", "l", "e", "d">>

\* the template of generateFullHTML: markup in chunks, one chunk per css
\* rule of the inline style
generateFullHTML(bodyHTML, title) ==
  <<"<!DOCTYPE html>", "\n", "<html lang=\"en\">", "\n", "<head>", "\n",
    "<meta charset=\"UTF-8\">", "\n",
    "<meta name=\"viewport\" content=\"width=device-width, initial-scale=1.0\">",
    "\n", "<title>">>
    \o escapeHtml(IF title = <<>> THEN Untitled ELSE title)
    \o <<"</title>", "\n",
         "<link rel=\"stylesheet\" href=\"https://cdnjs.cloudflare.com/ajax/libs/tufte-css/1.8.0/tufte.min.css\">",
         "\n",
         "<link rel=\"stylesheet\" href=\"https://cdn.jsdelivr.net/npm/katex@0.16.11/dist/katex.min.css\">",
         "\n",
         "<link rel=\"stylesheet\" href=\"https://cdnjs.cloudflare.com/ajax/libs/prism/1.29.0/themes/prism-tomorrow.min.css\">",
         "\n", "<style>", "body { padding: 2rem 0; }", " ",
         "section { display: flow-root; }">>
    \o getCitationCSS
    \o <<"</style>", "\n", "</head>", "\n", "<body>", "\n", "<article>", "\n">>
    \o bodyHTML
    \o <<"\n", "</article>", "\n", "</body>", "\n", "</html>">>

\* the export of the editor: the html of the render that has just returned
\* goes into generateFullHTML with the trimmed title of the document, or
\* Untitled
ExportHTML(docTitle) ==
  /\ pc = "done"
  /\ ret' = Ret("generateFullHTML", html, docTitle, 0,
                generateFullHTML(html, IF Trim(docTitle) = <<>> THEN Untitled
                                       ELSE Trim(docTitle)))
  /\ pc' = "idle"
  /\ src' = <<>>
  /\ blocks' = <<>>
  /\ blockLines' = <<>>
  /\ blockIdx' = 0
  /\ html' = <<>>
  /\ inSection' = FALSE
  /\ openedImplicitSection' = FALSE
  /\ UNCHANGED <<citVars, snCounter, mnCounter, hist, prev, scan, server, page>>

\* the titles of SpecExport
DocTitles == {<<>>, <<" ">>, <<"T">>, <<"a", "<", "b">>, <<" ", "T", " ", "d", " ">>}

\* documents of figures are rendered and exported
NextExport ==
  \/ \E st \in Styles : SetCitationStyle(st)
  \/ pc = "idle" /\ \E d \in FigureDocs : ParseMarkdownBegin(d.text)
  \/ ParseMarkdownBlock
  \/ ParseMarkdownEnd
  \/ \E t \in DocTitles : ExportHTML(t)

SpecExport == InitLoaded /\ [][NextExport]_vars

\* the chunks of h between its <style> and its </style>
StyleOf(h) ==
  IF Has(h, "<style>") /\ Has(h, "</style>")
  THEN SubSeq(h, IndexOf(h, "<style>") + 2, IndexOf(h, "</style>"))
  ELSE <<>>

\* what h holds between <article>\n and \n</article>
ArticleOf(h) ==
  LET last == CHOOSE p \in 1..Len(h) :
                h[p] = "</article>" /\ \A q \in (p + 1)..Len(h) : h[q] # "</article>"
  IN SubSeq(h, IndexOf(h, "<article>") + 3, last - 2)

\* C22: what generateFullHTML returns starts with <!DOCTYPE html>, its
\* inline style holds the rule figure { text-align: center; } and a
\* figcaption rule with margin-top 0.4em and font-size 0.875rem, its <title>
\* is the escaped title, and the body is what <article> holds.
C22_ExportHasFigureRules ==
  ret.op = "generateFullHTML"
    => /\ ret.html[1] = "<!DOCTYPE html>"
       /\ Has(StyleOf(ret.html), "figure { text-align: center; }")
       /\ \E r \in Range(StyleOf(ret.html)) :
            r \in {"figcaption { margin-top: 0.4em; font-size: 0.875rem; }",
                   "figcaption { font-size: 0.875rem; margin-top: 0.4em; }"}
       /\ Contains(ret.html,
            <<"<title>">>
              \o escapeHtml(IF Trim(ret.b) = <<>> THEN Untitled ELSE Trim(ret.b))
              \o <<"</title>">>)
       /\ ArticleOf(ret.html) = ret.a

(***************************************************************************)
(* Claims about the per-render counters (specification SpecCounters)       *)
(***************************************************************************)

\* the most blocks in a document of notes, and the most tokens in a block
MaxNoteBlocks == 2
MaxNoteTokens == 2

\* a sidenote, a margin note and a margin figure
K_fig == ImageToken(<<"c">>, <<>>, Mod_margin)
NoteTokens == {K_sn, K_mn, K_fig}

\* a paragraph of note tokens with a space between them
NoteUnits ==
  {Join(ts, <<" ">>) : ts \in SeqsUpTo(NoteTokens, MaxNoteTokens) \ {<<>>}}
NoteDocs == {Doc(us) : us \in SeqsUpTo(NoteUnits, MaxNoteBlocks)}

NextCounters ==
  \/ pc = "idle" /\ \E d \in NoteDocs : ParseMarkdownBegin(d)
  \/ ParseMarkdownBlock
  \/ ParseMarkdownEnd
  \/ Return

SpecCounters == Init /\ [][NextCounters]_vars

\* the numbers of the ids, in the order of h, of the labels whose id starts
\* with one of prefixes
LabelNumbers(h, prefixes) ==
  LET at == {p \in 1..(Len(h) - 2) :
               h[p] = "\" for=\"" /\ h[p + 1] \in prefixes}
      pos == SortedSeq(at)
  IN [k \in 1..Len(pos) |-> DigitsValue(<<h[pos[k] + 2]>>)]

\* C23: in the html of a finished render the k-th sidenote label has id
\* sn-k, and the k-th margin label, {mn:...} tokens and {margin} figures
\* taken together in the order of the source, has number k.
C23_CountersFollowDocumentOrder ==
  pc = "done"
    => /\ LabelNumbers(html, {"sn-"})
            = [k \in 1..Len(LabelNumbers(html, {"sn-"})) |-> k]
       /\ LabelNumbers(html, {"mn-", "mn-fig-"})
            = [k \in 1..Len(LabelNumbers(html, {"mn-", "mn-fig-"})) |-> k]

(***************************************************************************)
(* Claims about non-citable blocks (specification SpecSkip)                *)
(***************************************************************************)

\* the most blocks in a text of entries and non-citable blocks
MaxSkipBlocks == 3

\* blocks that give no entry, each with the (no) entries it gives:
\*   @string{s="x"}   @STRING{k9,t={x}}   @Preamble{"p"}   @comment{@a{k8,}}
\*   @a{,t={x}}   @a{ }
NonCitable(text) == [text |-> text, entries |-> <<>>]
NonCitableBlocks ==
  {NonCitable(<<"@", "s", "t", "r", "i", "n", "g", "{", "s", "=", "\"", "x", "\"", "}">>),
   NonCitable(<<"@", "S", "T", "R", "I", "N", "G", "{", "k", "9", ",", "t", "=", "{", "x", "}", "}">>),
   NonCitable(<<"@", "P", "r", "e", "a", "m", "b", "l", "e", "{", "\"", "p", "\"", "}">>),
   NonCitable(<<"@", "c", "o", "m", "m", "e", "n", "t", "{", "@", "a", "{", "k", "8", ",", "}", "}">>),
   NonCitable(<<"@", "a", "{", ",", "t", "=", "{", "x", "}", "}">>),
   NonCitable(<<"@", "a", "{", " ", "}">>)}
Citable(g) == [text |-> g.text, entries |-> <<g>>]
SkipBlocks == NonCitableBlocks \cup {Citable(G_K1), Citable(G_k2)}

\* the texts of SpecSkip, each with the complete entries it holds, in order
SkipLoads ==
  {[text |-> Flatten([j \in 1..Len(bs) |-> bs[j].text]),
    good |-> Flatten([j \in 1..Len(bs) |-> bs[j].entries])] :
     bs \in SeqsUpTo(SkipBlocks, MaxSkipBlocks)}

NextSkip ==
  \/ scan.pc = "idle" /\ \E u \in SkipLoads : ParseBibTeXCall(u.text)
  \/ EntryStep
  \/ BodyKeyStep
  \/ FieldStep
  \/ FieldsReturn
  \/ ParseBibTeXReturn

SpecSkip == Init /\ [][NextSkip]_vars

\* C24: what parseBibTeX returns for a text of complete entries and of
\* @string, @preamble, @comment blocks (in any case) and bodies without a
\* key is exactly the complete entries under their lowercased keys: no
\* entry comes from the other blocks, and none of the entries before or
\* after them is lost.
C24_NonCitableBlocksAreSkipped ==
  scan.pc = "returned"
    => \A u \in SkipLoads :
         scan.text = u.text => scan.entries = Merged(EmptyMap, u.good)

\* @comment{@a{k8,}} @a{K1,t={x}} @a{,t={x}} has been parsed: the entry
\* between the two blocks is the only one returned
C24_Witness ==
  /\ scan.pc = "returned"
  /\ scan.text = <<"@", "c", "o", "m", "m", "e", "n", "t", "{", "@", "a", "{", "k", "8", ",", "}", "}">> \o G_K1.text \o <<"@", "a", "{", ",", "t", "=", "{", "x", "}", "}">>
  /\ DOMAIN scan.entries = {<<"k", "1">>}

(***************************************************************************)
(* The tracker as a data structure (specification Spec)                    *)
(***************************************************************************)

\* the urls cited through formatInlineUrlCitation since the last reset
UrlsCited == {hist[j][2] : j \in {i \in 1..Len(hist) : hist[i][1] = "url"}}

\* C25: after every operation on the tracker, the counter is the length of
\* the ordered list and the size of the set, the list has no repeat and
\* holds the members of the set, and the url table has one record for each
\* url cited since the reset and no other, each with the 1-based position
\* of the url's identifier in the list.
C25_TrackerIsConsistent ==
  /\ citeCounter = Len(citedKeys)
  /\ citeCounter = Cardinality(citedKeySet)
  /\ \A i, j \in 1..Len(citedKeys) : citedKeys[i] = citedKeys[j] => i = j
  /\ Range(citedKeys) = citedKeySet
  /\ {urlCitations[j].url : j \in 1..Len(urlCitations)} = UrlsCited
  /\ \A i, j \in 1..Len(urlCitations) :
       urlCitations[i].url = urlCitations[j].url => i = j
  /\ \A j \in 1..Len(urlCitations) :
       /\ urlCitations[j].number >= 1
       /\ urlCitations[j].number
            = IndexOf(citedKeys, UrlPrefix \o urlCitations[j].url) + 1

\* a key was cited, then a url with a name, and then the url again without
\* a name
C25_Witness ==
  /\ ret.op = "urlcite"
  /\ ret.b = <<>>
  /\ Len(citedKeys) = 2
  /\ Len(urlCitations) = 1
  /\ urlCitations[1].number = 2
  /\ urlCitations[1].name = <<"n">>

\* the keys cited through formatInlineCitation since the last reset
KeysCited == {hist[j][2] : j \in {i \in 1..Len(hist) : hist[i][1] = "key"}}

\* C26: a keyed citation never gets the number the url table holds for a
\* url, and in a references section the item of every key cited since the
\* reset (and still in the Store) is the formatted reference of its entry.
C26_KeyAndUrlAreDistinct ==
  /\ ret.op = "cite"
       => \A j \in 1..Len(urlCitations) : urlCitations[j].number # ret.number
  /\ ret.op = "renderReferencesSection"
       => \A k \in KeysCited \cap DOMAIN bibliography :
            ItemAt(ret.html, IndexOf(citedKeys, k) + 1)
              = formatReferenceHTML(citationStyle, bibliography[k])

(***************************************************************************)
(* Block splitting as a partition of the document (on SpecBlocks)          *)
(***************************************************************************)

\* the 0-based indices of the lines that block splitting keeps: the lines
\* that are not blank outside a fence, and every line from an opening
\* delimiter to its closing delimiter or to the end of the document
KeptLines(lines) ==
  {i \in 0..(Len(lines) - 1) :
     FenceBefore(lines, i) # "none" \/ ~BlankLine(lines[i + 1])}

\* C27: block splitting partitions the document: every line that is not
\* blank outside a fence, and every line from an opening fence to its
\* closing fence (or to the end of the document when the fence never
\* closes), is in exactly one block; a block holds its lines in source
\* order; the blocks are in source order; no block is empty.
C27_BlocksPartitionTheDocument ==
  pc \in {"blocks", "done"} =>
    LET lines == SrcLines
    IN /\ \A i \in KeptLines(lines) : Cardinality(BlocksOfLine(i)) = 1
       /\ \A k \in 1..Len(blocks) :
            /\ blocks[k] # <<>>
            /\ BlockSpan(k) \subseteq 0..(Len(lines) - 1)
            /\ SplitChar(blocks[k], "\n") =
                 [j \in 1..Cardinality(BlockSpan(k)) |->
                    lines[blockLines[k] + j]]
       /\ \A k \in 1..(Len(blocks) - 1) :
            SetMax(BlockSpan(k)) < blockLines[k + 1]

\* a call has split a document whose code fence never closes: the fence
\* keeps the blank line and the text after it in one block
C27_Witness ==
  /\ pc = "done"
  /\ SrcLines = <<L_text, L_blank, L_code, L_blank, L_text>>
  /\ Len(blocks) = 2
  /\ blockLines = <<0, 2>>
  /\ BlockSpan(2) = 2..4

(***************************************************************************)
(* The undo history of editor.js (SpecHistory)                             *)
(***************************************************************************)

\* history.MAX, 200 in the source, scaled down so that a full history is
\* within reach
MAX == 3

\* the most states past MAX that the list is followed to
MaxOverflow == 1

\* { value: editor.value, selStart: editor.selectionStart,
\*   selEnd: editor.selectionEnd }
EditorState(pg) ==
  [value |-> pg.value, selStart |-> pg.selStart, selEnd |-> pg.selEnd]

\* states.length = n, for n no larger than the length
Truncated(states, n) == SubSeq(states, 1, n)

\* history.save: the states after the pointer are dropped, a value equal to
\* that of the last state is not pushed, the oldest state is shifted out
\* when the list grows past MAX
history_save(pg) ==
  LET state == EditorState(pg)
      cut == IF pg.pointer < Len(pg.states) - 1
             THEN Truncated(pg.states, pg.pointer + 1) ELSE pg.states
  IN IF Len(cut) > 0 /\ cut[Len(cut)].value = state.value
     THEN [pg EXCEPT !.states = cut]
     ELSE LET pushed == Append(cut, state)
              kept == IF Len(pushed) > MAX THEN Tail(pushed) ELSE pushed
          IN [pg EXCEPT !.states = kept, !.pointer = Len(kept) - 1]

\* history.reset
history_reset(pg) ==
  history_save([pg EXCEPT !.states = <<>>, !.pointer = -1])

\* scheduleSave: the pending timer is cleared and a new one is armed
scheduleSave(pg) == [pg EXCEPT !.saveTimer = TRUE]

\* history._restore: the state under the pointer goes into the textarea
\* (states[pointer] of the source is states[pointer + 1] here)
_restore(pg) ==
  LET state == pg.states[pg.pointer + 1]
  IN scheduleSave([pg EXCEPT !.value = state.value,
                             !.selStart = state.selStart,
                             !.selEnd = state.selEnd])

\* history.undo: a value that is not that of the state under the pointer is
\* pushed first (nothing is shifted out here)
history_undo(pg) ==
  LET timed == [pg EXCEPT !.undoTimer = FALSE]
      top == IF pg.pointer >= 0 THEN pg.states[pg.pointer + 1] ELSE NoUndo
      pushed == IF pg.pointer < 0 \/ top.value # pg.value
                THEN [timed EXCEPT
                        !.states = Append(Truncated(pg.states, pg.pointer + 1),
                                          EditorState(pg)),
                        !.pointer = pg.pointer + 1]
                ELSE timed
  IN IF pushed.pointer <= 0 THEN pushed
     ELSE _restore([pushed EXCEPT !.pointer = @ - 1])

\* history.undo gets past its `if (this.pointer <= 0) return`
UndoMoves(pg) ==
  IF pg.pointer < 0 \/ pg.states[pg.pointer + 1].value # pg.value
  THEN pg.pointer + 1 > 0 ELSE pg.pointer > 0

\* history.redo
history_redo(pg) ==
  LET timed == [pg EXCEPT !.undoTimer = FALSE]
  IN IF pg.pointer >= Len(pg.states) - 1 THEN timed
     ELSE _restore([timed EXCEPT !.pointer = @ + 1])

\* the texts the textarea holds, and the selections of a text
EditorValues == {<<>>, <<"a">>, <<"b">>}
Selections(value) ==
  {sel \in (0..Len(value)) \X (0..Len(value)) : sel[1] <= sel[2]}

\* the input listener, after the user has changed the text and left the
\* caret at position c: the save and the snapshot are scheduled
Input(value, c) ==
  /\ value # page.value
  /\ page' = [scheduleSave(page) EXCEPT !.value = value, !.selStart = c,
                                        !.selEnd = c, !.undoTimer = TRUE,
                                        !.undone = NoUndo]
  /\ UNCHANGED <<citVars, parserVars, ret, hist, prev, scan, server>>

\* the user moves the caret or selects: no listener of editor.js runs
Select(sel) ==
  /\ <<page.selStart, page.selEnd>> # sel
  /\ page' = [page EXCEPT !.selStart = sel[1], !.selEnd = sel[2],
                          !.undone = NoUndo]
  /\ UNCHANGED <<citVars, parserVars, ret, hist, prev, scan, server>>

\* the timer of the input listener fires: history.save()
UndoTimerFires ==
  /\ page.undoTimer
  /\ page' = [history_save(page) EXCEPT !.undoTimer = FALSE,
                                        !.undone = NoUndo]
  /\ UNCHANGED <<citVars, parserVars, ret, hist, prev, scan, server>>

\* insertSnippet and selectAutocompleteItem call history.save() before they
\* change the text
HistorySave ==
  /\ page' = [history_save(page) EXCEPT !.undone = NoUndo]
  /\ page' # page
  /\ UNCHANGED <<citVars, parserVars, ret, hist, prev, scan, server>>

\* the undo button or Ctrl/Cmd+Z (as long as the list is at most
\* MaxOverflow longer than MAX afterwards)
Undo ==
  /\ Len(history_undo(page).states) <= MAX + MaxOverflow
  /\ page' = [history_undo(page) EXCEPT !.undone =
                IF UndoMoves(page) THEN EditorState(page) ELSE NoUndo]
  /\ UNCHANGED <<citVars, parserVars, ret, hist, prev, scan, server>>

\* the redo button, Ctrl/Cmd+Shift+Z or Ctrl/Cmd+Y
Redo ==
  /\ page' = [history_redo(page) EXCEPT !.undone = NoUndo]
  /\ UNCHANGED <<citVars, parserVars, ret, hist, prev, scan, server>>

\* loadDocument(doc): the content goes into the textarea, which leaves the
\* caret at its end, and the history starts again
loadDocument(pg, content) ==
  history_reset([pg EXCEPT !.value = content, !.selStart = Len(content),
                           !.selEnd = Len(content)])

\* a document with the given content is loaded
Load(content) ==
  /\ page' = [loadDocument(page, content) EXCEPT !.undone = NoUndo]
  /\ UNCHANGED <<citVars, parserVars, ret, hist, prev, scan, server>>

NextHistory ==
  \/ \E value \in EditorValues : \E c \in 0..Len(value) : Input(value, c)
  \/ \E sel \in Selections(page.value) : Select(sel)
  \/ UndoTimerFires
  \/ HistorySave
  \/ Undo
  \/ Redo
  \/ \E content \in EditorValues : Load(content)

SpecHistory == Init /\ [][NextHistory]_vars

\* C28: after the initial save and after every sequence of saves, undos,
\* redos, resets and edits, 0 <= pointer <= states.length - 1 and
\* states.length <= MAX.
C28_HistoryStaysInBounds ==
  /\ 0 <= page.pointer
  /\ page.pointer <= Len(page.states) - 1
  /\ Len(page.states) <= MAX

\* C29: a redo that follows at once an undo that moved the pointer puts
\* back the value and the selection the textarea held before the undo,
\* snapshotted or not.
C29_RedoRestoresWhatUndoTook ==
  [][(page.undone # NoUndo /\ Redo) => EditorState(page') = page.undone]_vars

(***************************************************************************)
(* Documents of documents.js and the handlers of editor.js that save,      *)
(* switch, create, rename and delete them (SpecDocuments)                  *)
(***************************************************************************)

\* the most async calls that wait for a fetch at one time, the most
\* documents made with the New button, and the most switches, creations,
\* deletions and renames the user asks for
MaxFlows == 2
MaxCreated == 1
MaxClicks == 2

UntitledDocument ==
  <<"U", "n", "t", "i", "t", "l", "e", "d", " ",
    "D", "o", "c", "u", "m", "e", "n", "t">>
DotMd == <<".", "m", "d">>
N_c == <<"c", ".", "m", "d">>

\* title.replace(/[\/\\:*?"<>|]/g, '').trim() || 'Untitled Document'
sanitize(title) ==
  LET kept == SelectSeq(title, LAMBDA ch :
                ch \notin {"/", "\\", ":", "*", "?", "\"", "<", ">", "|"})
  IN IF Trim(kept) = <<>> THEN UntitledDocument ELSE Trim(kept)

\* the name Documents.create settles on: the first of title.md,
\* title 2.md, title 3.md, ... that the cached list does not hold
RECURSIVE CreateName(_, _, _)
CreateName(docs, docTitle, i) ==
  LET name == IF i = 1 THEN docTitle \o DotMd
              ELSE docTitle \o <<" ">> \o Digits(i) \o DotMd
  IN IF \E j \in 1..Len(docs) : docs[j] = name
     THEN CreateName(docs, docTitle, i + 1) ELSE name

\* what the server does with a docs request whose body it has read:
\* handleDocsAPI and the callback of readBody in one step
DocsAnswer(files, method, route, body) ==
  LET name == safeName(route)
  IN IF name = <<>> \/ ~EndsWithMd(name)
     THEN [files |-> files, res |-> Res(400, <<"Invalid document name">>)]
     ELSE IF method = "GET"
     THEN [files |-> files,
           res |-> IF name \in DOMAIN files THEN Res(200, files[name])
                   ELSE Res(404, <<"Not found">>)]
     ELSE IF method = "PUT" THEN PutCallback(files, name, body)
     ELSE IF method = "PATCH" THEN PatchCallback(files, name, body)
     ELSE IF name \in DOMAIN files
     THEN [files |-> unlinkSync(files, name), res |-> Res(200, <<"ok">>)]
     ELSE [files |-> files, res |-> Res(404, <<"Not found">>)]

\* a call of an async function that waits for the answer to its fetch
\* (stage "sent") or for its turn to go on after the answer came (stage
\* "answered"): op is the function, step the await it stands at, arg the
\* name it was called with or has settled on
Flow(op, step, method, name, body, arg) ==
  [op |-> op, step |-> step, stage |-> "sent",
   req |-> [method |-> method, name |-> name, body |-> body],
   res |-> Res(0, <<>>), arg |-> arg]

\* Documents.save(content) up to its await: PUT to the active document
Documents_save(pg, content, op, arg) ==
  [pg EXCEPT !.flows = @ \cup {Flow(op, "save", "PUT", pg._activeDoc,
                                    B_text(content), arg)}]

\* Documents.load(name) up to its await, for a name of the cached list: the
\* active document changes before the content is fetched
Documents_load(pg, name, f) ==
  [pg EXCEPT !._activeDoc = name,
             !.flows = (@ \ {f}) \cup
                {Flow(f.op, "load", "GET", name, NoBody, name)}]

\* the documents at the start: two files, each with a text that starts
\* with a letter of its own
DocFiles == [n \in {N_a, N_b} |-> IF n = N_a THEN <<"A">> ELSE <<"B">>]

\* the page when the script has run: Documents.init has made the first
\* document of the list the active one and its content is in the textarea
InitDocuments ==
  /\ CitInit
  /\ ParserInit
  /\ ret = Ret("init", <<>>, <<>>, 0, <<>>)
  /\ hist = <<>>
  /\ prev = NoPrev
  /\ scan = NoScan
  /\ server = [NoServer EXCEPT !.files = DocFiles]
  /\ page = [loadDocument(NoPage, DocFiles[N_a])
               EXCEPT !._activeDoc = N_a, !._docs = <<N_a, N_b>>]

\* the texts typing makes of a text: the first letter, which tells the
\* documents apart, stays; an empty text is that of the new document
TypedValues(value) ==
  IF value = <<>> THEN {<<"U">>}
  ELSE {<<value[1]>>, <<value[1], "x">>}

\* the timer of scheduleSave fires: Documents.save(editor.value)
SaveTimerFires ==
  /\ page.saveTimer
  /\ page._activeDoc # <<>>
  /\ Cardinality(page.flows) < MaxFlows
  /\ page' = Documents_save([page EXCEPT !.saveTimer = FALSE], page.value,
                            "save", <<>>)
  /\ UNCHANGED <<citVars, parserVars, ret, hist, prev, scan, server>>

\* Ctrl/Cmd+S: Documents.save(editor.value)
CtrlS ==
  /\ page._activeDoc # <<>>
  /\ Cardinality(page.flows) < MaxFlows
  /\ page' = Documents_save(page, page.value, "save", <<>>)
  /\ page' # page
  /\ UNCHANGED <<citVars, parserVars, ret, hist, prev, scan, server>>

\* a click on another document of the sidebar: switchDocument(name) up to
\* its first await
switchDocument(name) ==
  /\ name # page._activeDoc
  /\ Cardinality(page.flows) < MaxFlows
  /\ page.clicks < MaxClicks
  /\ page' = Documents_save([page EXCEPT !.saveTimer = FALSE,
                                         !.clicks = @ + 1],
                            page.value, "switch", name)
  /\ UNCHANGED <<citVars, parserVars, ret, hist, prev, scan, server>>

\* a click on the New button, up to its first await
NewDocClick ==
  /\ page.created < MaxCreated
  /\ Cardinality(page.flows) < MaxFlows
  /\ page.clicks < MaxClicks
  /\ page' = Documents_save([page EXCEPT !.saveTimer = FALSE,
                                         !.created = @ + 1,
                                         !.clicks = @ + 1],
                            page.value, "create", <<>>)
  /\ UNCHANGED <<citVars, parserVars, ret, hist, prev, scan, server>>

\* a confirmed click on the delete button of a document: Documents.deleteDoc
\* up to its first await (one at a time, and never the last document)
DeleteClick(name) ==
  /\ Len(page._docs) > 1
  /\ \A f \in page.flows : f.op # "delete"
  /\ Cardinality(page.flows) < MaxFlows
  /\ page.clicks < MaxClicks
  /\ page' = [page EXCEPT !.clicks = @ + 1, !.flows =
                @ \cup {Flow("delete", "delete", "DELETE", name, NoBody, name)}]
  /\ UNCHANGED <<citVars, parserVars, ret, hist, prev, scan, server>>

\* the title loses the focus with a new text: Documents.rename(newTitle) up
\* to its await
TitleBlur(newTitle) ==
  /\ page._activeDoc # <<>>
  /\ sanitize(newTitle) \o DotMd # page._activeDoc
  /\ Cardinality(page.flows) < MaxFlows
  /\ page.clicks < MaxClicks
  /\ page' = [page EXCEPT !.clicks = @ + 1, !.flows =
                @ \cup {Flow("rename", "patch", "PATCH", page._activeDoc,
                             B_object(sanitize(newTitle) \o DotMd),
                             sanitize(newTitle) \o DotMd)}]
  /\ UNCHANGED <<citVars, parserVars, ret, hist, prev, scan, server>>

\* the server answers the fetch of a waiting call
Serve(f) ==
  /\ f.stage = "sent"
  /\ LET r == DocsAnswer(server.files, f.req.method, f.req.name, f.req.body)
     IN /\ server' = [server EXCEPT !.files = r.files, !.res = r.res]
        /\ page' = [page EXCEPT !.flows =
                      (@ \ {f}) \cup {[f EXCEPT !.stage = "answered",
                                                !.res = r.res]}]
  /\ UNCHANGED <<citVars, parserVars, ret, hist, prev, scan>>

\* the list without the document of the given name, and with the entry of
\* one name renamed
WithoutDoc(docs, name) == SelectSeq(docs, LAMBDA d : d # name)
RenamedDoc(docs, from, to) ==
  [j \in 1..Len(docs) |-> IF docs[j] = from THEN to ELSE docs[j]]

\* a call goes on after its await, up to its next await or its end.
\* Documents.deleteDoc makes a fresh document when it has emptied the list.
Resume(f) ==
  /\ f.stage = "answered"
  /\ LET rest == [page EXCEPT !.flows = @ \ {f}]
         inList == \E j \in 1..Len(page._docs) : page._docs[j] = f.arg
     IN page' =
          IF f.step = "save"
          THEN IF f.op = "save" THEN rest
               ELSE IF f.op = "switch"
               THEN IF inList THEN Documents_load(page, f.arg, f) ELSE rest
               ELSE [page EXCEPT !.flows = (@ \ {f}) \cup
                       {Flow("create", "put", "PUT",
                             CreateName(page._docs, UntitledDocument, 1),
                             NoBody,
                             CreateName(page._docs, UntitledDocument, 1))}]
          ELSE IF f.step = "put"
          THEN IF f.op = "create"
               THEN loadDocument([rest EXCEPT !._docs = <<f.arg>> \o @,
                                              !._activeDoc = f.arg], <<>>)
               ELSE [page EXCEPT !._docs = <<f.arg>> \o @,
                                 !._activeDoc = f.arg,
                                 !.flows = (@ \ {f}) \cup
                                    {Flow("delete", "load", "GET", f.arg,
                                          NoBody, f.arg)}]
          ELSE IF f.step = "delete"
          THEN LET docs == WithoutDoc(page._docs, f.arg)
                   active == IF page._activeDoc = f.arg THEN docs[1]
                             ELSE page._activeDoc
               IN IF docs = <<>>
                  THEN [page EXCEPT !._docs = docs, !.flows = (@ \ {f}) \cup
                          {Flow("delete", "put", "PUT",
                                UntitledDocument \o DotMd, NoBody,
                                UntitledDocument \o DotMd)}]
                  ELSE [page EXCEPT !._docs = docs, !._activeDoc = active,
                                    !.flows = (@ \ {f}) \cup
                                       {Flow("delete", "load", "GET", active,
                                             NoBody, f.arg)}]
          ELSE IF f.step = "load"
          THEN loadDocument(rest, f.res.body)
          ELSE IF f.res.status # 200 THEN rest
          ELSE [rest EXCEPT !._docs = RenamedDoc(@, page._activeDoc, f.arg),
                            !._activeDoc = f.arg]
  /\ UNCHANGED <<citVars, parserVars, ret, hist, prev, scan, server>>

\* the titles typed into the title field
NewTitles == {<<"c">>, <<"b">>}

NextDocuments ==
  \/ \E value \in TypedValues(page.value) : Input(value, Len(value))
  \/ SaveTimerFires
  \/ CtrlS
  \/ \E j \in 1..Len(page._docs) : switchDocument(page._docs[j])
  \/ NewDocClick
  \/ \E j \in 1..Len(page._docs) : DeleteClick(page._docs[j])
  \/ \E t \in NewTitles : TitleBlur(t)
  \/ \E f \in page.flows : Serve(f)
  \/ \E f \in page.flows : Resume(f)

SpecDocuments == InitDocuments /\ [][NextDocuments]_vars

\* the document a text belongs to: its first letter, U for the empty text
\* of the new document
DocOf(content) == IF content = <<>> THEN "U" ELSE content[1]

\* C30: no step writes into the file of a document a text of another
\* document: a file that exists before and after a step holds a text of the
\* same document.
C30_FilesKeepTheirDocument ==
  [][\A n \in DOMAIN server.files \cap DOMAIN server'.files :
       DocOf(server'.files[n]) = DocOf(server.files[n])]_vars

=============================================================================
